---- MODULE Spec2Model ----
(***************************************************************************)
(* Companies House data pipeline: the ledger merge (scripts/common.py),    *)
(* the release-asset publish protocol it is published through, and the      *)
(* registry backfill loop (scripts/metadata_bulk_api_fill.py).              *)
(*                                                                          *)
(* Three state machines share the module:                                   *)
(*   SpecMerge  - append_parquet applied to a local parquet file            *)
(*   SpecStore  - writers running ensure/download/merge/delete/upload       *)
(*                against one release asset                                 *)
(*   SpecFill   - repeated runs of the API fill loop with checkpoints       *)
(***************************************************************************)
EXTENDS Integers, Sequences, FiniteSets, TLC

\* ------------------------------ bounds ---------------------------------
NumIds == 2
NumVals == 2
MaxBatch == 2
MaxMerges == 2
MaxInitRows == 1
NumWriters == 2
MaxRuns == 2
NumFin == 3
MaxBatchSize == 2
MaxLimit == 1

\* --------------------------- program constants -------------------------
\* s.dropna().head(10) in _to_arrow_table
HeadN == 10

\* ------------------------------- rows ----------------------------------
\* A registry row: id  = companies_house_registered_number (the subset key),
\*                 val = the scalar columns (name, status, ...), as a version,
\*                 sic = the list column sic_codes:
\*                        0  null,
\*                       -1  a list of two or more codes,
\*                      d>=1 a one-element list whose element has been passed
\*                           through str() d-1 times (1 = the code itself).
Ids == 1..NumIds
Vals == 1..NumVals
SicNull == 0
SicMany == 0 - 1
SicOne == 1
NewSics == {SicNull, SicOne, SicMany}

NewRows == [id : Ids, val : Vals, sic : NewSics]

RECURSIVE SeqsUpTo(_, _)
SeqsUpTo(S, n) ==
  IF n = 0 THEN {<<>>}
  ELSE LET shorter == SeqsUpTo(S, n - 1)
       IN  shorter \cup {Append(s, x) : s \in {t \in shorter : Len(t) = n - 1}, x \in S}

Batches == SeqsUpTo(NewRows, MaxBatch) \ {<<>>}

Range(s) == {s[i] : i \in 1..Len(s)}

\* --------------------------- local parquet file ------------------------
\* st = "missing": no file, or the empty file NamedTemporaryFile creates
\* st = "corrupt": bytes that pd.read_parquet cannot decode
\* st = "ok"     : a parquet file holding rows
MissingFile == [st |-> "missing", rows |-> <<>>]
CorruptFile == [st |-> "corrupt", rows |-> <<>>]
OkFile(rows) == [st |-> "ok", rows |-> rows]

\* subset_keys = ["companies_house_registered_number"]
DedupKey(r) == r.id

KeysOf(rows) == {DedupKey(rows[i]) : i \in 1..Len(rows)}

\* pd.read_parquet: a list column comes back as numpy arrays, not lists
Decoded(rows) == [i \in 1..Len(rows) |-> [id |-> rows[i].id, val |-> rows[i].val,
                                          sic |-> rows[i].sic, arr |-> TRUE]]

\* the rows of df_new: list cells are Python lists
Fresh(rows) == [i \in 1..Len(rows) |-> [id |-> rows[i].id, val |-> rows[i].val,
                                        sic |-> rows[i].sic, arr |-> FALSE]]

RECURSIVE PickIdx(_, _, _)
PickIdx(s, keep, i) ==
  IF i > Len(s) THEN <<>>
  ELSE IF i \in keep THEN <<s[i]>> \o PickIdx(s, keep, i + 1)
  ELSE PickIdx(s, keep, i + 1)

\* DataFrame.drop_duplicates(subset=keys, keep="first"): NOT what the code calls
DropDuplicatesKeepFirst(s) ==
  PickIdx(s, {i \in 1..Len(s) : \A j \in 1..(i - 1) : DedupKey(s[j]) # DedupKey(s[i])}, 1)

\* DataFrame.drop_duplicates(subset=keys, keep="last"): order preserved
DropDuplicates(s) ==
  PickIdx(s, {i \in 1..Len(s) : \A j \in (i + 1)..Len(s) : DedupKey(s[j]) # DedupKey(s[i])}, 1)

\* _to_arrow_table on the sic_codes column.
\* The list branch is taken when one of the first HeadN non-null cells is a
\* Python list; there a cell that is a numpy array is not a list, so it goes
\* through `None if pd.isna(v) else [str(v)]`: a one-element array becomes the
\* one-element list holding its repr, an array of two or more raises
\* ValueError (truth value of an array is ambiguous).
NonNull(s) == PickIdx(s, {i \in 1..Len(s) : s[i].sic # SicNull}, 1)

HeadRows(s, n) == SubSeq(s, 1, IF Len(s) < n THEN Len(s) ELSE n)

ListBranch(s) ==
  LET head == HeadRows(NonNull(s), HeadN)
  IN  \E i \in 1..Len(head) : ~head[i].arr

ToArrowRaises(s) == ListBranch(s) /\ \E i \in 1..Len(s) : s[i].arr /\ s[i].sic = SicMany

ToArrowCell(r, wrap) ==
  [id |-> r.id, val |-> r.val,
   sic |-> IF wrap /\ r.arr /\ r.sic >= SicOne THEN r.sic + 1 ELSE r.sic]

ToArrowTable(s) ==
  LET wrap == ListBranch(s)
  IN  [i \in 1..Len(s) |-> ToArrowCell(s[i], wrap)]

\* pd.concat([df_new, df_old]): NOT what the code does
ConcatNewFirst(old, new) == new \o old

\* pd.concat([df_old, df_new], ignore_index=True)
Concat(old, new) == old \o new

\* append_parquet(path, df_new, subset_keys): the rows handed to the writer
DfAll(f, new) ==
  IF f.st = "ok" THEN Concat(Decoded(f.rows), Fresh(new)) ELSE Fresh(new)

AppendRaises(f, new) == ToArrowRaises(DropDuplicates(DfAll(f, new)))

\* a file that does not decode is left as it is: NOT what the code does
AppendParquetOkOnly(f, new) ==
  IF f.st = "ok" THEN OkFile(ToArrowTable(DropDuplicates(DfAll(f, new)))) ELSE f

\* append_parquet: the file afterwards (unchanged when _to_arrow_table raised)
AppendParquet(f, new) ==
  LET df_all == DropDuplicates(DfAll(f, new))
  IN  IF ToArrowRaises(df_all) THEN f ELSE OkFile(ToArrowTable(df_all))

\* ------------------------------ state ----------------------------------
VARIABLES
  file,      \* the local parquet file append_parquet works on
  mOld,      \* the file before the most recent append_parquet
  mNew,      \* the batch of the most recent append_parquet
  mBase,     \* the file before the append_parquet before that
  mPrev,     \* the batch of the append_parquet before that
  mRun,      \* completed append_parquet calls in a row on this file (0..2)
  mCount,    \* append_parquet calls so far
  mRaised,   \* the most recent append_parquet raised
  \* the release asset OUTPUT_BASENAME of one partition tag
  asset,     \* [id, rows]; id = 0: the release has no asset of that name
  nextId,    \* the id the store gives the next uploaded asset
  \* writers (processes running ensure / download / merge / publish)
  writers,   \* the processes that run
  pc,        \* writer -> its position
  rel,       \* writer -> asset id in the release JSON it holds (0: none)
  tmp,       \* writer -> its local parquet file
  runs,      \* writer -> runs started
  snap,      \* writer -> the file its last publish step was given
  lastDone,  \* the writer whose publish step returned last (0: none)
  published, \* an asset of that name has existed
  pubKeys,   \* the DedupKeys of the asset as last uploaded
  keysKept,  \* every upload that merged into a decoded snapshot kept its keys
  fault,     \* a store call failed or a writer was stopped
  \* the API fill run (metadata_bulk_api_fill.main)
  registered,  \* the company numbers the registry API has a profile for
  limit,       \* --limit (0: no cap)
  batchSize,   \* --batch-size
  fpc,         \* "idle" between runs, "loop" inside the fetch loop
  frel,        \* asset id in meta_rel / meta_asset, read once at the start
  ftmp,        \* the local file tmp_meta
  remain,      \* the list remain
  fi,          \* iterations of the fetch loop done (the loop index i)
  buffer,      \* the list buffer
  sinceFlush,  \* lookups completed since the checkpoint block last ran
  flushed,     \* keys whose rows a completed checkpoint or final flush held
  relooked,    \* keys looked up although a completed flush held their row
  lastWritten, \* the file the most recent publish step was given
  pubReturned, \* a publish step of the running process has returned
  firstRemain, \* the remaining set (before --limit) of the first run
  started,     \* a run has started
  resumeOk,    \* every later run started with firstRemain minus flushed
  runFetched,  \* keys whose lookup gave a row during the current run
  runDone,     \* the current run has returned from main
  \* the rolling-window limiter (_pace / _get)
  maxRpm,      \* --max-rpm
  clock,       \* time.time(), in ticks of 0.05 s
  recent,      \* the module-level list _recent
  sentAt,      \* the times at which a request was issued, in order
  paceRaised,  \* _pace raised (IndexError on an empty _recent)
  \* the daily registry sync (metadata_sync_daily.main)
  seen_ids,    \* state["seen_ids"] as saved in STATE_PATH
  fin_ids,     \* the ids held by the recent financial partitions
  \* the monthly ingest (ixbrl_bulk_parse.main over one archive)
  inner,       \* the documents the walker yields, in discovery order
  fb,          \* the fallback date: the 15th of months[0] of --year
  rows,        \* the list rows of _parse_daily_zip
  ipc,         \* "parse", "route", "done"
  handed,      \* partition -> the rows handed to append_parquet for it
  ledger,      \* partition -> the rows of its financials.parquet
  \* the fact resolver (get_number / _pick_fact on one document)
  facts,       \* doc.facts: the facts of the document, in document order
  prefer,      \* "instant" for a balance-sheet field, "duration" for a P&L field
  picked,      \* what _pick_fact returned: Unpicked before the call
  \* the key normalisers applied to one raw identifier
  raw,         \* the raw identifier: a string of characters, or None
  normed,      \* norm_ixbrl_id(raw), once called
  snapNormed,  \* normalize_to_ixbrl_format(raw), once called
  canon,       \* canon_company_number(raw), once called
  \* the document walker over one downloaded archive
  zroot,       \* the entries of the archive, in infolist() order
  zi,          \* how many entries the walker has passed
  yielded,     \* the paths of the documents yielded so far
  sampled,     \* the result of iter_html_from_zip_bytes, once run
  \* the amount parsers applied to one raw value
  amt,         \* the raw text of a fact, or None
  asFloat,     \* _to_float(amt), once called
  asNumber,    \* _to_number(amt), once called
  \* one routed group of financial rows merged into its partition
  grp,         \* the rows routed to one partition, in batch order
  kept,        \* the rows append_parquet keeps, once it has run
  \* one run of metadata_snapshot_and_fill
  spc,         \* where the run is: collect, snapshot, fill, done, crashed
  sfin,        \* fin_canon_set: the financial keys
  sasset,      \* metadata.parquet in the metadata release
  snapHas,     \* the companies the bulk snapshot has a row for
  snapSic,     \* the SIC codes of the snapshot rows
  sbudget,     \* --time-budget-mins
  sbatch,      \* --batch-size
  slimit,      \* --limit
  sexisting,   \* existing_canon
  sAtCollect,  \* the companies with a row in the partition when the keys were collected
  snapCovered, \* the companies the snapshot merge of this run has written
  stodo,       \* remain_canon: the keys still to look up
  scount,      \* len(remain_canon) after the cap
  si,          \* the iterations of the fetch loop so far
  sbuf,        \* buffer
  slooked,     \* the companies looked up through the API
  sfetched,    \* the companies whose row was put in the buffer
  elapsed,     \* time.time() - t0, in minutes
  slast,       \* the last lookup: its outcome and the buffer before it
  \* one call of the limiter-aware GET and its caller
  gpc,         \* where the call is: calling, returned, raised, handled
  nreq,        \* the requests sent by this call
  backoff,     \* backoff, in seconds
  waits,       \* the sleeps after the 429 responses: the header seen and the seconds slept
  gstatus,     \* the status of the last response
  gcounted,    \* the iterations of the caller this call has used
  gwarned,     \* the caller has logged a warning for the key
  \* _scale_by_decimals
  sval,        \* the parsed value, or none
  sdec,        \* the decimals attribute of the fact
  scaled,      \* the result of _scale_by_decimals
  \* the header of a registry snapshot and its number column
  header,      \* the column names of the snapshot CSV
  cnCol,       \* col(snap, "CompanyNumber") of metadata_snapshot_and_fill
  keepCn,      \* the source column to_metadata_schema keeps as the number
  \* one point lookup of metadata_bulk_api_fill
  finKey,      \* the key of remain the loop is at (cid)
  apiCid,      \* to_api_company_number(cid)
  stored,      \* the row appended to the buffer
  \* one safe_upload call of a checkpoint
  uattempts,   \* the parameter attempts
  ucalls,      \* calls of gh_release_upload_or_replace_asset made
  upc,         \* "loop", "returned" (safe_upload is over), "cleared"
  ustore,      \* the asset in the store: "old", "none", "new"
  ubuf,        \* rows in the caller's buffer
  uok,         \* the most recent upload call returned without raising
  \* list_recent_financial_halves
  today,       \* dt.date.today(): year and month
  halves,      \* the list halves
  ordered      \* the list returned

mvars == <<file, mOld, mNew, mBase, mPrev, mRun, mCount, mRaised>>

storevars == <<asset, nextId>>

wvars == <<writers, pc, rel, tmp, runs, snap, lastDone, published, pubKeys, keysKept, fault>>

fvars == <<registered, limit, batchSize, fpc, frel, ftmp, remain, fi, buffer,
           sinceFlush, flushed, relooked, lastWritten, pubReturned, firstRemain,
           started, resumeOk, runFetched, runDone>>

pvars == <<maxRpm, clock, recent, sentAt, paceRaised>>

\* the variables of the machines added after the ledger, store and fill ones
syvars == <<seen_ids, fin_ids>>

ivars == <<inner, fb, rows, ipc, handed, ledger>>

kvars == <<facts, prefer, picked>>

nvars == <<raw, normed, snapNormed, canon>>

wkvars == <<zroot, zi, yielded, sampled>>

avars == <<amt, asFloat, asNumber>>

dvars == <<grp, kept>>

svars == <<spc, sfin, sasset, snapHas, snapSic, sbudget, sbatch, slimit, sexisting, sAtCollect, snapCovered, stodo, scount, si, sbuf, slooked, sfetched, elapsed, slast>>

gvars == <<gpc, nreq, backoff, waits, gstatus, gcounted, gwarned>>

cvars == <<sval, sdec, scaled>>

hvars == <<header, cnCol, keepCn>>

lvars == <<finKey, apiCid, stored>>

uvars == <<uattempts, ucalls, upc, ustore, ubuf, uok>>

yvars == <<today, halves, ordered>>

ovars == <<pvars, syvars, ivars, kvars, nvars, wkvars, avars, dvars, svars, gvars, cvars, hvars, lvars, uvars, yvars>>

corevars == <<mvars, storevars, wvars, fvars>>

vars == <<file, mOld, mNew, mBase, mPrev, mRun, mCount, mRaised,
          asset, nextId,
          writers, pc, rel, tmp, runs, snap, lastDone, published, pubKeys, keysKept, fault,
          registered, limit, batchSize, fpc, frel, ftmp, remain, fi, buffer,
          sinceFlush, flushed, relooked, lastWritten, pubReturned, firstRemain,
          started, resumeOk, runFetched, runDone,
          maxRpm, clock, recent, sentAt, paceRaised,
          seen_ids, fin_ids,
          inner, fb, rows, ipc, handed, ledger,
          facts, prefer, picked,
          raw, normed, snapNormed, canon,
          zroot, zi, yielded, sampled,
          amt, asFloat, asNumber,
          grp, kept,
          spc, sfin, sasset, snapHas, snapSic, sbudget, sbatch, slimit, sexisting, sAtCollect, snapCovered, stodo, scount, si, sbuf, slooked, sfetched, elapsed, slast,
          gpc, nreq, backoff, waits, gstatus, gcounted, gwarned,
          sval, sdec, scaled,
          header, cnCol, keepCn,
          finKey, apiCid, stored,
          uattempts, ucalls, upc, ustore, ubuf, uok,
          today, halves, ordered>>

\* --------------------------- SpecMerge ---------------------------------
\* the path before the first call: no file yet (or the empty temp file),
\* downloaded bytes that do not decode, or a file an earlier append_parquet wrote
InitFiles ==
  {MissingFile, CorruptFile} \cup
  {AppendParquet(MissingFile, b) : b \in (SeqsUpTo(NewRows, MaxInitRows) \ {<<>>})}

NoAsset == [id |-> 0, rows |-> <<>>]

Procs == 1..NumWriters

StoreIdle ==
  /\ asset = NoAsset
  /\ nextId = 1

WritersIdle ==
  /\ writers = {}
  /\ pc = [p \in Procs |-> "start"]
  /\ rel = [p \in Procs |-> 0]
  /\ tmp = [p \in Procs |-> MissingFile]
  /\ runs = [p \in Procs |-> 0]
  /\ snap = [p \in Procs |-> MissingFile]
  /\ lastDone = 0
  /\ published = FALSE
  /\ pubKeys = {}
  /\ keysKept = TRUE
  /\ fault = FALSE

FillIdle ==
  /\ registered = {}
  /\ limit = 0
  /\ batchSize = 1
  /\ fpc = "idle"
  /\ frel = 0
  /\ ftmp = MissingFile
  /\ remain = <<>>
  /\ fi = 0
  /\ buffer = <<>>
  /\ sinceFlush = 0
  /\ flushed = {}
  /\ relooked = {}
  /\ lastWritten = MissingFile
  /\ pubReturned = FALSE
  /\ firstRemain = {}
  /\ started = FALSE
  /\ resumeOk = TRUE
  /\ runFetched = {}
  /\ runDone = FALSE

PaceIdle ==
  /\ maxRpm = 1
  /\ clock = 0
  /\ recent = <<>>
  /\ sentAt = <<>>
  /\ paceRaised = FALSE

SyncIdle ==
  /\ seen_ids = {}
  /\ fin_ids = {}

IngestIdle ==
  /\ inner = <<>>
  /\ fb = 0
  /\ rows = <<>>
  /\ ipc = "done"
  /\ handed = <<>>
  /\ ledger = <<>>

PickIdle ==
  /\ facts = <<>>
  /\ prefer = "instant"
  /\ picked = [called |-> FALSE]

NormIdle ==
  /\ raw = [some |-> FALSE]
  /\ normed = [called |-> FALSE]
  /\ snapNormed = [called |-> FALSE]
  /\ canon = [called |-> FALSE]

WalkIdle ==
  /\ zroot = <<>>
  /\ zi = 0
  /\ yielded = <<>>
  /\ sampled = [called |-> FALSE]

AmountIdle ==
  /\ amt = [some |-> FALSE]
  /\ asFloat = [called |-> FALSE]
  /\ asNumber = [called |-> FALSE]

DedupIdle ==
  /\ grp = <<>>
  /\ kept = [called |-> FALSE]

SnapIdle ==
  /\ spc = "done"
  /\ sfin = {}
  /\ sasset = MissingFile
  /\ snapHas = {}
  /\ snapSic = SicOne
  /\ sbudget = 0
  /\ sbatch = 1
  /\ slimit = 0
  /\ sexisting = {}
  /\ sAtCollect = {}
  /\ snapCovered = {}
  /\ stodo = {}
  /\ scount = 0
  /\ si = 0
  /\ sbuf = <<>>
  /\ slooked = {}
  /\ sfetched = {}
  /\ elapsed = 0
  /\ slast = [kind |-> "none"]

GetIdle ==
  /\ gpc = "handled"
  /\ nreq = 0
  /\ backoff = 0
  /\ waits = <<>>
  /\ gstatus = 0
  /\ gcounted = 0
  /\ gwarned = FALSE

ScaleIdle ==
  /\ sval = [some |-> FALSE]
  /\ sdec = [kind |-> "none"]
  /\ scaled = [called |-> FALSE]

ColsIdle ==
  /\ header = <<>>
  /\ cnCol = [called |-> FALSE]
  /\ keepCn = [called |-> FALSE]

ApiIdle ==
  /\ finKey = <<>>
  /\ apiCid = [called |-> FALSE]
  /\ stored = [called |-> FALSE]

UploadIdle ==
  /\ uattempts = 0
  /\ ucalls = 0
  /\ upc = "cleared"
  /\ ustore = "old"
  /\ ubuf = 0
  /\ uok = FALSE

HalvesIdle ==
  /\ today = [y |-> 0, m |-> 0]
  /\ halves = <<>>
  /\ ordered = [called |-> FALSE]

OthersIdle == PaceIdle /\ SyncIdle /\ IngestIdle /\ PickIdle /\ NormIdle /\ WalkIdle /\ AmountIdle /\ DedupIdle /\ SnapIdle /\ GetIdle /\ ScaleIdle /\ ColsIdle /\ ApiIdle /\ UploadIdle /\ HalvesIdle

MergeIdle ==
  /\ file = MissingFile
  /\ mOld = MissingFile
  /\ mNew = <<>>
  /\ mBase = MissingFile
  /\ mPrev = <<>>
  /\ mRun = 0
  /\ mCount = 0
  /\ mRaised = FALSE

InitMerge ==
  /\ OthersIdle
  /\ StoreIdle
  /\ WritersIdle
  /\ FillIdle
  /\ file \in InitFiles
  /\ mOld = MissingFile
  /\ mNew = <<>>
  /\ mBase = MissingFile
  /\ mPrev = <<>>
  /\ mRun = 0
  /\ mCount = 0
  /\ mRaised = FALSE

\* one call append_parquet(path, df_new, subset_keys)
Merge ==
  /\ mCount < MaxMerges
  /\ \E b \in Batches :
       LET raised == AppendRaises(file, b)
       IN  /\ file' = AppendParquet(file, b)
           /\ mRaised' = raised
           /\ mOld' = file
           /\ mNew' = b
           /\ mBase' = mOld
           /\ mPrev' = mNew
           /\ mRun' = IF raised THEN 0 ELSE IF mRun = 0 THEN 1 ELSE 2
  /\ mCount' = mCount + 1
  /\ UNCHANGED <<ovars, storevars, wvars, fvars>>

NextMerge == Merge

SpecMerge == InitMerge /\ [][NextMerge]_vars

\* ------------------------- ledger merge claims --------------------------
LastIdx(s, k) ==
  CHOOSE i \in 1..Len(s) :
    /\ DedupKey(s[i]) = k
    /\ \A j \in (i + 1)..Len(s) : DedupKey(s[j]) # k

Scalar(r) == <<r.id, r.val>>

ScalarRows(f) == {Scalar(f.rows[i]) : i \in 1..Len(f.rows)}

RowOf(f, k) == f.rows[CHOOSE i \in 1..Len(f.rows) : DedupKey(f.rows[i]) = k]

\* the last append_parquet completed on a file that decoded
MergedOnOld == mRun >= 1 /\ mOld.st = "ok"

C2_MergeIdempotent ==
  (mRun = 2 /\ mPrev = mNew) => file = mOld

\* the same two batches merged into the same base in the other order:
\* ok = both append_parquet calls complete, f = the file afterwards
SwapOrder ==
  LET first == AppendParquet(mBase, mNew)
  IN  [ok |-> ~AppendRaises(mBase, mNew) /\ ~AppendRaises(first, mPrev),
       f |-> AppendParquet(first, mPrev)]

C6_DisjointBatchesCommute ==
  (mRun = 2 /\ KeysOf(mPrev) \cap KeysOf(mNew) = {}) =>
    LET sw == SwapOrder
    IN  sw.ok => Range(file.rows) = Range(sw.f.rows)

\* --------------------------- SpecStore ----------------------------------
\* Writers of one partition, each running the sequence of
\* ixbrl_bulk_parse.main: gh_release_ensure, gh_release_find_asset,
\* gh_release_download_asset, append_parquet,
\* gh_release_upload_or_replace_asset (DELETE by id, refresh, POST by name).
\* The store keeps one asset per name: a POST of a name that exists answers
\* 422, a DELETE of an id that is gone answers 404.

\* the snapshot the partition holds before any writer runs
SeedRows == <<[id |-> NumIds, val |-> 1, sic |-> SicNull]>>

\* the rows writer p parsed in its current run (financial rows: no list column)
WriterBatch(p) == <<[id |-> ((p - 1) % NumIds) + 1, val |-> runs[p], sic |-> SicNull]>>

InitStore ==
  /\ OthersIdle
  /\ MergeIdle
  /\ FillIdle
  /\ asset \in {NoAsset, [id |-> 1, rows |-> SeedRows]}
  /\ nextId = asset.id + 1
  /\ writers \in {{1}, Procs}
  /\ pc = [p \in Procs |-> "start"]
  /\ rel = [p \in Procs |-> 0]
  /\ tmp = [p \in Procs |-> MissingFile]
  /\ runs = [p \in Procs |-> 0]
  /\ snap = [p \in Procs |-> MissingFile]
  /\ lastDone = 0
  /\ published = (asset.id # 0)
  /\ pubKeys = KeysOf(asset.rows)
  /\ keysKept = TRUE
  /\ fault = FALSE

\* rel = gh_release_ensure(tag); tmp_out = NamedTemporaryFile(...);
\* asset = gh_release_find_asset(rel, OUTPUT_BASENAME)
Ensure(p) ==
  /\ p \in writers
  /\ pc[p] \in {"start", "done", "raised", "stopped"}
  /\ runs[p] < MaxRuns
  /\ runs' = [runs EXCEPT ![p] = @ + 1]
  /\ rel' = [rel EXCEPT ![p] = asset.id]
  /\ tmp' = [tmp EXCEPT ![p] = MissingFile]
  /\ pc' = [pc EXCEPT ![p] = IF asset.id # 0 THEN "download" ELSE "append"]
  /\ UNCHANGED <<ovars, mvars, fvars, storevars, writers, snap, lastDone, published, pubKeys,
                 keysKept, fault>>

\* gh_release_download_asset: GET browser_download_url (addressed by name);
\* raise_for_status raises when no asset of that name is left
Download(p) ==
  /\ p \in writers
  /\ pc[p] = "download"
  /\ IF asset.id # 0
     THEN /\ tmp' = [tmp EXCEPT ![p] = OkFile(asset.rows)]
          /\ pc' = [pc EXCEPT ![p] = "append"]
     ELSE /\ tmp' = tmp
          /\ pc' = [pc EXCEPT ![p] = "raised"]
  /\ UNCHANGED <<ovars, mvars, fvars, storevars, writers, rel, runs, snap, lastDone, published,
                 pubKeys, keysKept, fault>>

\* append_parquet(tmp_out, part, subset_keys=keys)
MergeLocal(p) ==
  /\ p \in writers
  /\ pc[p] = "append"
  /\ tmp' = [tmp EXCEPT ![p] = AppendParquet(tmp[p], WriterBatch(p))]
  /\ snap' = [snap EXCEPT ![p] = AppendParquet(tmp[p], WriterBatch(p))]
  /\ pc' = [pc EXCEPT ![p] = IF AppendRaises(tmp[p], WriterBatch(p)) THEN "raised"
                             ELSE IF rel[p] # 0 THEN "delete" ELSE "upload"]
  /\ UNCHANGED <<ovars, mvars, fvars, storevars, writers, rel, runs, lastDone, published, pubKeys,
                 keysKept, fault>>

\* gh_release_upload_or_replace_asset, first half: DELETE the asset id found
\* in the release JSON the writer holds; 204 and 404 both go on
Delete(p) ==
  /\ p \in writers
  /\ pc[p] = "delete"
  /\ asset' = IF asset.id = rel[p] THEN NoAsset ELSE asset
  /\ pc' = [pc EXCEPT ![p] = "upload"]
  /\ UNCHANGED <<ovars, mvars, fvars, nextId, writers, rel, tmp, runs, snap, lastDone, published,
                 pubKeys, keysKept, fault>>

\* DELETE answers another status: dr.raise_for_status()
DeleteFails(p) ==
  /\ p \in writers
  /\ pc[p] = "delete"
  /\ pc' = [pc EXCEPT ![p] = "raised"]
  /\ fault' = TRUE
  /\ UNCHANGED <<ovars, mvars, fvars, storevars, writers, rel, tmp, runs, snap, lastDone,
                 published, pubKeys, keysKept>>

\* the POST of the upload: 201 creates the asset, 422 (the name exists)
\* returns as a success too
Post(p, from, oldDecoded) ==
  /\ p \in writers
  /\ pc[p] = from
  /\ IF asset.id # 0
     THEN UNCHANGED <<asset, nextId, published, pubKeys, keysKept>>
     ELSE /\ asset' = [id |-> nextId, rows |-> tmp[p].rows]
          /\ nextId' = nextId + 1
          /\ published' = TRUE
          /\ pubKeys' = KeysOf(tmp[p].rows)
          /\ keysKept' = (keysKept /\ (oldDecoded => pubKeys \subseteq KeysOf(tmp[p].rows)))
  /\ pc' = [pc EXCEPT ![p] = "done"]
  /\ lastDone' = p
  /\ UNCHANGED <<ovars, mvars, fvars, writers, rel, tmp, runs, snap, fault>>

Upload(p) == Post(p, "upload", rel[p] # 0)

\* the first POST answers neither 200/201 nor 422: sleep and POST again
UploadFails(p) ==
  /\ p \in writers
  /\ pc[p] = "upload"
  /\ pc' = [pc EXCEPT ![p] = "upload2"]
  /\ fault' = TRUE
  /\ UNCHANGED <<ovars, mvars, fvars, storevars, writers, rel, tmp, runs, snap, lastDone,
                 published, pubKeys, keysKept>>

Upload2(p) == Post(p, "upload2", rel[p] # 0)

\* the second POST fails as well: up2.raise_for_status()
Upload2Fails(p) ==
  /\ p \in writers
  /\ pc[p] = "upload2"
  /\ pc' = [pc EXCEPT ![p] = "raised"]
  /\ fault' = TRUE
  /\ UNCHANGED <<ovars, mvars, fvars, storevars, writers, rel, tmp, runs, snap, lastDone,
                 published, pubKeys, keysKept>>

\* the process is stopped (job cancelled, runner lost) in mid-run
Stop(p) ==
  /\ p \in writers
  /\ pc[p] \in {"download", "append", "delete", "upload", "upload2"}
  /\ pc' = [pc EXCEPT ![p] = "stopped"]
  /\ fault' = TRUE
  /\ UNCHANGED <<ovars, mvars, fvars, storevars, writers, rel, tmp, runs, snap, lastDone,
                 published, pubKeys, keysKept>>

NextStore ==
  \E p \in Procs :
    \/ Ensure(p)
    \/ Download(p)
    \/ MergeLocal(p)
    \/ Delete(p)
    \/ DeleteFails(p)
    \/ Upload(p)
    \/ UploadFails(p)
    \/ Upload2(p)
    \/ Upload2Fails(p)
    \/ Stop(p)

SpecStore == InitStore /\ [][NextStore]_vars

\* --------------------------- publish claims -----------------------------
\* C4: with a single writer, once the partition's blob has been published it
\* is in the store whenever the writer is not between the delete and the
\* upload of a publish step, whatever the store calls answered and wherever
\* the writer was stopped; and every upload that merged into a decoded
\* snapshot kept the DedupKeys of the blob it replaced.
C4_PublishedBlobStays ==
  (writers = {1} /\ published /\ pc[1] \notin {"upload", "upload2"}) =>
    (asset.id # 0 /\ keysKept)

\* C7: when two writers have both finished without a failed store call, the
\* blob exists and is the snapshot of the writer whose publish step returned
\* last.
C7_LastPublishWins ==
  (writers = Procs /\ (\A p \in Procs : pc[p] = "done") /\ ~fault) =>
    (asset.id # 0 /\ asset.rows = snap[lastDone].rows)

\* --------------------------- SpecFill -----------------------------------
\* Repeated runs of metadata_bulk_api_fill.main against one half: the
\* financial partition is unchanged, the store answers every call, and the
\* run is the only writer of the registry partition.

\* fin_ids: the normalized financial ids, in the order of the financial file
FinSeq == [i \in 1..NumFin |-> i]

\* the row the loop builds from a company profile (sic_codes is a list)
ApiRow(cid) == [id |-> cid, val |-> 1, sic |-> SicOne]

RECURSIVE NotIn(_, _)
\* [cid for cid in fin_ids if cid not in existing]
NotIn(seq, existing) ==
  IF seq = <<>> THEN <<>>
  ELSE IF seq[1] \in existing THEN NotIn(Tail(seq), existing)
  ELSE <<seq[1]>> \o NotIn(Tail(seq), existing)

\* remain[: args.limit] when args.limit > 0
Capped(seq, n) == IF n > 0 /\ Len(seq) > n THEN SubSeq(seq, 1, n) ELSE seq

\* max(1, args.batch_size)
CheckpointEvery == IF batchSize < 1 THEN 1 ELSE batchSize

InitFill ==
  /\ OthersIdle
  /\ MergeIdle
  /\ WritersIdle
  /\ asset \in {NoAsset, [id |-> 1, rows |-> <<ApiRow(NumFin)>>]}
  /\ nextId = asset.id + 1
  /\ registered \in SUBSET (1..NumFin)
  /\ limit \in 0..MaxLimit
  /\ batchSize \in 1..MaxBatchSize
  /\ fpc = "idle"
  /\ frel = 0
  /\ ftmp = MissingFile
  /\ remain = <<>>
  /\ fi = 0
  /\ buffer = <<>>
  /\ sinceFlush = 0
  /\ flushed = {}
  /\ relooked = {}
  /\ lastWritten = MissingFile
  /\ pubReturned = FALSE
  /\ firstRemain = {}
  /\ started = FALSE
  /\ resumeOk = TRUE
  /\ runFetched = {}
  /\ runDone = FALSE

\* main up to the fetch loop: read the financial ids, ensure the metadata
\* release, download metadata.parquet if the release lists it, compute remain;
\* return when remain is empty
StartRun ==
  /\ fpc = "idle"
  /\ LET existing == KeysOf(asset.rows)
         all == NotIn(FinSeq, existing)
     IN  /\ remain' = Capped(all, limit)
         /\ fpc' = IF all = <<>> THEN "idle" ELSE "loop"
         /\ firstRemain' = IF started THEN firstRemain ELSE Range(all)
         /\ resumeOk' = (resumeOk /\ (started => Range(all) = firstRemain \ flushed))
         /\ runDone' = (all = <<>>)
  /\ started' = TRUE
  /\ runFetched' = {}
  /\ frel' = asset.id
  /\ ftmp' = IF asset.id # 0 THEN OkFile(asset.rows) ELSE MissingFile
  /\ fi' = 0
  /\ buffer' = <<>>
  /\ sinceFlush' = 0
  /\ pubReturned' = FALSE
  /\ UNCHANGED <<ovars, mvars, storevars, wvars, registered, limit, batchSize, flushed,
                 relooked, lastWritten>>

\* the checkpoint / final flush of the rows buf:
\*   if meta_asset: gh_release_download_asset(meta_asset, tmp_meta)
\*   append_parquet(tmp_meta, df, ...)
\*   gh_release_upload_or_replace_asset(meta_rel, tmp_meta, ...)
\* meta_rel and meta_asset are the ones read before the loop: the DELETE
\* names the asset id of that time, and the POST answers 422 when an asset of
\* the name is still there.
Flush(buf) ==
  LET base == IF frel # 0 THEN OkFile(asset.rows) ELSE ftmp
      merged == AppendParquet(base, buf)
      afterDelete == IF frel # 0 /\ asset.id = frel THEN NoAsset ELSE asset
  IN  /\ ftmp' = merged
      /\ IF afterDelete.id = 0
         THEN /\ asset' = [id |-> nextId, rows |-> merged.rows]
              /\ nextId' = nextId + 1
         ELSE /\ asset' = afterDelete
              /\ nextId' = nextId
      /\ lastWritten' = merged
      /\ pubReturned' = TRUE
      /\ flushed' = flushed \cup KeysOf(buf)

NoFlush == UNCHANGED <<asset, nextId, ftmp, lastWritten, pubReturned, flushed>>

\* the checkpoint block at the end of iteration i
Checkpoint(i, buf) ==
  IF i % CheckpointEvery = 0 /\ buf # <<>>
  THEN Flush(buf) /\ buffer' = <<>>
  ELSE NoFlush /\ buffer' = buf

Iteration(cid) ==
  /\ fi' = fi + 1
  /\ relooked' = relooked \cup ({cid} \cap flushed)
  /\ UNCHANGED <<ovars, mvars, wvars, registered, limit, batchSize, fpc, frel, remain,
                 firstRemain, started, resumeOk, runDone>>

\* one iteration: the profile is returned, the row is buffered, the
\* checkpoint block runs
LookupFound ==
  /\ fpc = "loop"
  /\ fi < Len(remain)
  /\ remain[fi + 1] \in registered
  /\ Iteration(remain[fi + 1])
  /\ runFetched' = runFetched \cup {remain[fi + 1]}
  /\ Checkpoint(fi + 1, Append(buffer, ApiRow(remain[fi + 1])))
  /\ sinceFlush' = IF (fi + 1) % CheckpointEvery = 0 THEN 0 ELSE sinceFlush + 1

\* one iteration: HTTP 404, `continue`: the rest of the loop body, the
\* checkpoint block included, is skipped
Lookup404 ==
  /\ fpc = "loop"
  /\ fi < Len(remain)
  /\ remain[fi + 1] \notin registered
  /\ Iteration(remain[fi + 1])
  /\ runFetched' = runFetched
  /\ NoFlush
  /\ buffer' = buffer
  /\ sinceFlush' = sinceFlush + 1

\* one iteration: another HTTP error or an exception, caught and logged; the
\* checkpoint block runs
LookupError ==
  /\ fpc = "loop"
  /\ fi < Len(remain)
  /\ Iteration(remain[fi + 1])
  /\ runFetched' = runFetched
  /\ Checkpoint(fi + 1, buffer)
  /\ sinceFlush' = IF (fi + 1) % CheckpointEvery = 0 THEN 0 ELSE sinceFlush + 1

\* after the loop: flush what the buffer still holds, and return
Finish ==
  /\ fpc = "loop"
  /\ fi = Len(remain)
  /\ IF buffer # <<>> THEN Flush(buffer) ELSE NoFlush
  /\ buffer' = <<>>
  /\ fpc' = "idle"
  /\ runDone' = TRUE
  /\ UNCHANGED <<ovars, mvars, wvars, registered, limit, batchSize, frel, remain, fi,
                 sinceFlush, relooked, firstRemain, started, resumeOk, runFetched>>

\* the process is stopped inside the loop; the buffer is lost with it
Interrupt ==
  /\ fpc = "loop"
  /\ fpc' = "idle"
  /\ buffer' = <<>>
  /\ UNCHANGED <<ovars, mvars, storevars, wvars, registered, limit, batchSize, frel, ftmp,
                 remain, fi, sinceFlush, flushed, relooked, lastWritten, pubReturned,
                 firstRemain, started, resumeOk, runFetched, runDone>>

NextFill == StartRun \/ LookupFound \/ Lookup404 \/ LookupError \/ Finish \/ Interrupt

SpecFill == InitFill /\ [][NextFill]_vars

\* runs that are never stopped and whose lookups never fail: every lookup
\* is answered with the profile or with 404, and a new run follows each run
NextFillCalm == StartRun \/ LookupFound \/ Lookup404 \/ Finish

SpecFillCalm == InitFill /\ [][NextFillCalm]_vars /\ WF_vars(NextFillCalm)

\* --------------------------- backfill claims ----------------------------
\* C3: whenever a publish step of the running process has returned without
\* raising, the store's blob of that name is the snapshot that was just
\* written; this holds for the second and later checkpoint flushes too.
C3_PublishedEqualsWritten ==
  pubReturned => (asset.id # 0 /\ asset.rows = lastWritten.rows)

\* C8: at every point of the loop at most batch-size lookups have completed
\* since the checkpoint block last ran, and the buffer holds at most
\* batch-size rows.
C8_AtMostOneBatchUnflushed ==
  fpc = "loop" => (sinceFlush <= CheckpointEvery /\ Len(buffer) <= CheckpointEvery)

\* C9: every financial key missing from the registry partition for which the
\* API has a profile is eventually merged into the registry partition.
C9_EveryKeyEventuallyMerged ==
  <>(registered \subseteq KeysOf(asset.rows))

\* C10: a restarted run starts with the first run's remaining set minus the
\* keys flushed by completed checkpoints, and no key whose row a completed
\* checkpoint flushed is looked up again.
C10_FlushedKeysNotLookedUpAgain ==
  resumeOk /\ relooked = {}

\* C35: when a run in which no store call raised has returned, the published
\* registry snapshot holds a row for every key whose point lookup succeeded
\* during the run, however many checkpoints the run made.
C35_NoFetchedRowLost ==
  runDone => runFetched \subseteq KeysOf(asset.rows)

\* --------------------------- SpecPace -----------------------------------
\* The rolling-window limiter of the API fill (metadata_bulk_api_fill and
\* metadata_snapshot_and_fill hold the same _pace and _get).  The process is
\* single-threaded and every request to the registry API is made by _get, so
\* one pass of its loop body is one limiter call followed by one request; the
\* request is issued at the time _pace appended to _recent.
\* Time is counted in ticks of 0.05 s, the margin _pace adds to its sleep.

MaxRpm == 2
MaxReqs == 4
MaxClock == 3

\* the 60 of `now - _recent[0] > 60` and of `60 - (now - _recent[0])`
WindowSecs == 60

\* 1 s = 20 ticks of 0.05 s
TicksPerSec == 20

Window == WindowSecs * TicksPerSec

\* the + 0.05 of the sleep
Margin == 1

\* the time that passes between two calls: half a window, a window, a window
\* and the margin (no time at all is the case of two calls without an Elapse)
Delays == {Window \div 2, Window, Window + Margin}

\* while _recent and now - _recent[0] > 60: _recent.pop(0)
RECURSIVE DropOld(_, _)
DropOld(rec, now) ==
  IF rec # <<>> /\ now - rec[1] > Window THEN DropOld(Tail(rec), now) ELSE rec

\* no sleep at all: NOT what the code does
SleepForNone(rec, now) == 0

\* sleep = 60 - (now - _recent[0]) + 0.05
SleepFor(rec, now) == Window - (now - rec[1]) + Margin

\* _pace raises: len(_recent) >= max_rpm holds on an empty list (max_rpm <= 0)
\* and _recent[0] is an IndexError
PaceRaises(rec, rpm) == Len(rec) >= rpm /\ rec = <<>>

\* the time at which _pace appends: after the sleep, when there was one
PaceTime(rec, now, rpm) ==
  IF Len(rec) >= rpm /\ SleepFor(rec, now) > 0 THEN now + SleepFor(rec, now) ELSE now

InitPace ==
  /\ HalvesIdle
  /\ UploadIdle
  /\ ApiIdle
  /\ ColsIdle
  /\ ScaleIdle
  /\ GetIdle
  /\ SnapIdle
  /\ DedupIdle
  /\ AmountIdle
  /\ WalkIdle
  /\ NormIdle
  /\ PickIdle
  /\ MergeIdle
  /\ StoreIdle
  /\ WritersIdle
  /\ FillIdle
  /\ maxRpm \in 0..MaxRpm
  /\ clock = 0
  /\ recent = <<>>
  /\ sentAt = <<>>
  /\ paceRaised = FALSE
  /\ SyncIdle
  /\ IngestIdle

\* one pass of the loop body of _get: _pace(max_rpm), then SESS.get(...)
PacedGet ==
  /\ Len(sentAt) < MaxReqs
  /\ LET rec == DropOld(recent, clock)
     IN  IF PaceRaises(rec, maxRpm)
         THEN /\ recent' = rec
              /\ paceRaised' = TRUE
              /\ UNCHANGED <<clock, sentAt>>
         ELSE LET t == PaceTime(rec, clock, maxRpm)
              IN  /\ clock' = t
                  /\ recent' = Append(rec, t)
                  /\ sentAt' = Append(sentAt, t)
                  /\ paceRaised' = FALSE
  /\ UNCHANGED <<corevars, yvars, uvars, lvars, hvars, cvars, gvars, svars, dvars, avars, wkvars, nvars, kvars, syvars, ivars, maxRpm>>

\* time passes outside _pace: the request itself, the sleep after a 429, the
\* rest of the fetch loop
Elapse ==
  /\ \E d \in Delays :
       /\ clock + d <= MaxClock * Window
       /\ clock' = clock + d
  /\ UNCHANGED <<corevars, yvars, uvars, lvars, hvars, cvars, gvars, svars, dvars, avars, wkvars, nvars, kvars, syvars, ivars, maxRpm, recent, sentAt, paceRaised>>

NextPace == PacedGet \/ Elapse

SpecPace == InitPace /\ [][NextPace]_vars

\* C11: every request is issued by a pass through the limiter, and no window
\* of 60 seconds holds more than max_rpm requests: request number i + max_rpm
\* is issued more than 60 s after request number i.
C11_AtMostMaxRpmPerWindow ==
  \A i, j \in 1..Len(sentAt) :
    j >= i + maxRpm => sentAt[j] - sentAt[i] > Window

\* C11 witness: the limiter held a request back until the window had passed
C11_Witness ==
  /\ maxRpm = MaxRpm
  /\ Len(sentAt) > maxRpm
  /\ \E i \in 1..Len(sentAt) :
       /\ i + maxRpm = Len(sentAt)
       /\ sentAt[i + maxRpm] = sentAt[i] + Window + Margin
       /\ sentAt[i + 1] > sentAt[i]

\* --------------------------- SpecSync -----------------------------------
\* Runs of metadata_sync_daily.main, one at a time, every store call
\* answered; the registry partition is the one of the current half.

NumSyncIds == 4

SyncIds == 1..NumSyncIds

RECURSIVE SortedSeq(_)
\* sorted(new_ids)
SortedSeq(S) ==
  IF S = {} THEN <<>>
  ELSE LET m == CHOOSE x \in S : \A y \in S : x <= y
       IN  <<m>> \o SortedSeq(S \ {m})

\* gather_new_company_ids(state_seen)
GatherNewCompanyIds(seen) == {cid \in fin_ids : cid \notin seen}

\* rows: one row per id of sorted(new_ids) whose lookups did not raise
SyncRows(ok) == [i \in 1..Cardinality(ok) |-> ApiRow(SortedSeq(ok)[i])]

InitSync ==
  /\ HalvesIdle
  /\ UploadIdle
  /\ ApiIdle
  /\ ColsIdle
  /\ ScaleIdle
  /\ GetIdle
  /\ SnapIdle
  /\ DedupIdle
  /\ AmountIdle
  /\ WalkIdle
  /\ NormIdle
  /\ PickIdle
  /\ MergeIdle
  /\ WritersIdle
  /\ FillIdle
  /\ PaceIdle
  /\ IngestIdle
  /\ asset = NoAsset
  /\ nextId = 1
  /\ seen_ids = {}
  /\ fin_ids \in (SUBSET SyncIds) \ {{}}

\* one run of main; ok = the ids whose profile and officers lookups succeeded
SyncRun ==
  /\ LET new_ids == GatherNewCompanyIds(seen_ids)
     IN  \E ok \in SUBSET new_ids :
           IF new_ids = {} \/ ok = {}
           THEN UNCHANGED <<asset, nextId, seen_ids>>
           ELSE LET tmp_out == IF asset.id # 0 THEN OkFile(asset.rows) ELSE MissingFile
                IN  /\ asset' = [id |-> nextId, rows |-> AppendParquet(tmp_out, SyncRows(ok)).rows]
                    /\ nextId' = nextId + 1
                    /\ seen_ids' = seen_ids \cup new_ids
  /\ UNCHANGED <<mvars, wvars, fvars, yvars, uvars, lvars, hvars, cvars, gvars, svars, dvars, avars, wkvars, nvars, kvars, pvars, ivars, fin_ids>>

\* a financial partition gains a company id
NewFinancialId ==
  /\ \E cid \in SyncIds \ fin_ids : fin_ids' = fin_ids \cup {cid}
  /\ UNCHANGED <<corevars, yvars, uvars, lvars, hvars, cvars, gvars, svars, dvars, avars, wkvars, nvars, kvars, pvars, ivars, seen_ids>>

NextSync == SyncRun \/ NewFinancialId

SpecSync == InitSync /\ [][NextSync]_vars

\* C12: every key of the saved seen set has a row in the published registry
\* partition.
C12_SeenIdsAreCovered ==
  seen_ids \subseteq KeysOf(asset.rows)

\* --------------------------- SpecIngest ---------------------------------
\* One run of ixbrl_bulk_parse.main over one monthly archive: _parse_daily_zip
\* parses the documents the walker yields, main routes the rows to (year,
\* half) partitions and merges each group into its partition.

MaxDocs == 2

\* row[c] = None
None == "None"

NoDate == [y |-> 0, m |-> 0]

\* --year and the years the documents report on
Years == {2024, 2025}

\* the months of the dates in the documents: the last of H1, the first of H2
Months == {6, 7}

Dates == [y : Years, m : Months]

\* pd.Timestamp(dt.date(args.year, months[0], 15))
FallbackDates == [y : {2024}, m : {1, 12}]

\* the value of the CompaniesHouseRegisteredNumber fact after str().strip():
\* None when the document has no such fact, "" when the fact is blank
DocKeys == {None, "", "88092"}

\* provenance passed by the caller
RunCode == "2025-07"

ZipUrl == "Accounts_Monthly_Data-July2025.zip"

\* a document: what its facts hold, and whether and where parsing it raises:
\*   "no"    - the parse completes
\*   "early" - IXBRL(...).parse() raises
\*   "late"  - a numeric field raises after the identity facts were read
Docs ==
  [key : DocKeys, bs : Dates \cup {NoDate}, pe : Dates \cup {NoDate}, raises : {"no"}]
    \cup [key : DocKeys, bs : {NoDate}, pe : {NoDate}, raises : {"early", "late"}]

\* the row of an aborted _parse_one_ixbrl, without the except clause: NOT what
\* the code does
ParseOneIxbrlNoProvenance(doc) ==
  [run_code |-> IF doc.raises = "no" THEN RunCode ELSE None,
   zip_url |-> IF doc.raises = "no" THEN ZipUrl ELSE None,
   key |-> IF doc.raises = "early" THEN None ELSE doc.key,
   bs |-> doc.bs, pe |-> doc.pe, error |-> doc.raises # "no"]

\* _parse_one_ixbrl(file_bytes, run_code=..., zip_url=...)
ParseOneIxbrl(doc) ==
  [run_code |-> RunCode,
   zip_url |-> ZipUrl,
   key |-> IF doc.raises = "early" THEN None ELSE doc.key,
   bs |-> IF doc.raises = "no" THEN doc.bs ELSE NoDate,
   pe |-> IF doc.raises = "no" THEN doc.pe ELSE NoDate,
   error |-> doc.raises # "no"]

\* ref: balance_sheet_date, else period_end, else fb
RouteRef(r) ==
  IF r.bs # NoDate THEN r.bs ELSE IF r.pe # NoDate THEN r.pe ELSE fb

\* always H1: NOT what the code does
RouteHalfAlwaysH1(mm) == "H1"

\* lambda mm: "H1" if int(mm) <= 6 else "H2"
RouteHalf(mm) == IF mm <= 6 THEN "H1" ELSE "H2"

\* _route = _route_year + "-" + _route_half
Route(r) == <<RouteRef(r).y, RouteHalf(RouteRef(r).m)>>

\* the (year, half) partitions a row of these documents can be routed to
Partitions == (Years \cup {d.y : d \in FallbackDates}) \X {"H1", "H2"}

RECURSIVE SelectRoute(_, _)
\* df_all.groupby("_route"): the rows of one group, in frame order
SelectRoute(rs, p) ==
  IF rs = <<>> THEN <<>>
  ELSE IF Route(rs[1]) = p THEN <<rs[1]>> \o SelectRoute(Tail(rs), p)
  ELSE SelectRoute(Tail(rs), p)

\* keys: the registered number and balance_sheet_date when the group has one,
\* else the registered number and period_end
FinKey(r, part) ==
  IF \E j \in 1..Len(part) : part[j].bs # NoDate THEN <<r.key, r.bs>> ELSE <<r.key, r.pe>>

\* append_parquet(tmp_out, part, subset_keys=keys) into a partition with no
\* financials.parquet yet: drop_duplicates(keep="last") over part
MergeFresh(part) ==
  PickIdx(part, {i \in 1..Len(part) :
                   \A j \in (i + 1)..Len(part) : FinKey(part[j], part) # FinKey(part[i], part)}, 1)

\* append_parquet(tmp_out, part, subset_keys=keys) into a partition that
\* holds the rows old: concat, then drop_duplicates(keep="last") on the key
\* columns chosen from part; a partition without a group is not touched
MergeInto(old, part) ==
  IF part = <<>> THEN old
  ELSE IF old = <<>> THEN MergeFresh(part)
  ELSE LET all == old \o part
       IN  PickIdx(all, {i \in 1..Len(all) :
                          \A j \in (i + 1)..Len(all) : FinKey(all[j], part) # FinKey(all[i], part)}, 1)

InitIngest ==
  /\ HalvesIdle
  /\ UploadIdle
  /\ ApiIdle
  /\ ColsIdle
  /\ ScaleIdle
  /\ GetIdle
  /\ SnapIdle
  /\ DedupIdle
  /\ AmountIdle
  /\ WalkIdle
  /\ NormIdle
  /\ PickIdle
  /\ MergeIdle
  /\ StoreIdle
  /\ WritersIdle
  /\ FillIdle
  /\ PaceIdle
  /\ SyncIdle
  /\ inner \in SeqsUpTo(Docs, MaxDocs)
  /\ fb \in FallbackDates
  /\ rows = <<>>
  /\ ipc = "parse"
  /\ handed = [p \in Partitions |-> <<>>]
  /\ ledger = [p \in Partitions |-> <<>>]

\* _parse_daily_zip: one pass of the loop over the walker's documents
ParseOne ==
  /\ ipc = "parse"
  /\ Len(rows) < Len(inner)
  /\ rows' = Append(rows, ParseOneIxbrl(inner[Len(rows) + 1]))
  /\ UNCHANGED <<corevars, yvars, uvars, lvars, hvars, cvars, gvars, svars, dvars, avars, wkvars, nvars, kvars, pvars, syvars, inner, fb, ipc, handed, ledger>>

\* _parse_daily_zip returns; main stops when the frame is empty
ParseReturn ==
  /\ ipc = "parse"
  /\ Len(rows) = Len(inner)
  /\ ipc' = IF rows = <<>> THEN "done" ELSE "route"
  /\ UNCHANGED <<corevars, yvars, uvars, lvars, hvars, cvars, gvars, svars, dvars, avars, wkvars, nvars, kvars, pvars, syvars, inner, fb, rows, handed, ledger>>

\* main: route every row, then merge each group into its partition
RouteAndMerge ==
  /\ ipc = "route"
  /\ handed' = [p \in Partitions |-> SelectRoute(rows, p)]
  /\ ledger' = [p \in Partitions |-> MergeInto(ledger[p], SelectRoute(rows, p))]
  /\ ipc' = "done"
  /\ UNCHANGED <<corevars, yvars, uvars, lvars, hvars, cvars, gvars, svars, dvars, avars, wkvars, nvars, kvars, pvars, syvars, inner, fb, rows>>

NextIngest == ParseOne \/ ParseReturn \/ RouteAndMerge

SpecIngest == InitIngest /\ [][NextIngest]_vars

\* the same archive is ingested again by a run whose month list starts at a
\* later month: the fallback date is the 15th of months[0]
Reingest ==
  /\ ipc = "done"
  /\ \E f \in FallbackDates : f.m > fb.m /\ fb' = f
  /\ rows' = <<>>
  /\ ipc' = "parse"
  /\ UNCHANGED <<corevars, yvars, uvars, lvars, hvars, cvars, gvars, svars, dvars, avars, wkvars, nvars, kvars, pvars, syvars, inner, handed, ledger>>

NextReingest == ParseOne \/ ParseReturn \/ RouteAndMerge \/ Reingest

\* runs of ixbrl_bulk_parse.main over one archive, one after the other
SpecReingest == InitIngest /\ [][NextReingest]_vars

\* C13: every row handed to the merge, and every row of every financial
\* partition, has an entity key: neither missing nor empty.
C13_NoRowWithoutEntityKey ==
  \A p \in Partitions :
    /\ \A i \in 1..Len(handed[p]) : handed[p][i].key \notin {None, ""}
    /\ \A i \in 1..Len(ledger[p]) : ledger[p][i].key \notin {None, ""}

\* the date the claim routes by: coalesce(balance_sheet_date, period_end, fallback)
CoalescedDate(r) ==
  IF r.bs # NoDate THEN r.bs ELSE IF r.pe # NoDate THEN r.pe ELSE fb

\* the partition the claim names: the year, H1 for months 1-6, H2 for 7-12
ClaimedPartition(r) ==
  <<CoalescedDate(r).y, IF CoalescedDate(r).m \in 1..6 THEN "H1" ELSE "H2">>

\* C15: after routing, every parsed row is in the group of exactly one
\* partition, the (year, half) of coalesce(balance_sheet_date, period_end,
\* fallback date): each partition's group is exactly the rows whose date falls
\* in it, so no row is dropped; a row with period_end in July 2025 and no
\* balance-sheet date is in (2025, H2), a row without dates in the fallback's.
C15_RoutedToOnePartition ==
  ipc = "done" /\ rows # <<>> =>
    /\ \A p \in Partitions :
         handed[p] = SelectSeq(rows, LAMBDA r : ClaimedPartition(r) = p)
    /\ \A i \in 1..Len(rows) :
         /\ (rows[i].bs = NoDate /\ rows[i].pe = [y |-> 2025, m |-> 7]) =>
               \E j \in 1..Len(handed[<<2025, "H2">>]) : handed[<<2025, "H2">>][j] = rows[i]
         /\ (rows[i].bs = NoDate /\ rows[i].pe = NoDate) =>
               \E j \in 1..Len(handed[<<fb.y, "H1">>]) \cup 1..Len(handed[<<fb.y, "H2">>]) :
                 \/ (j <= Len(handed[<<fb.y, "H1">>]) /\ fb.m <= 6
                       /\ handed[<<fb.y, "H1">>][j] = rows[i])
                 \/ (j <= Len(handed[<<fb.y, "H2">>]) /\ fb.m >= 7
                       /\ handed[<<fb.y, "H2">>][j] = rows[i])

\* C15 witness: a row with period_end in July 2025 only and a row without any
\* date were routed, the second to the fallback partition in H2
C15_Witness ==
  /\ ipc = "done"
  /\ Len(rows) = MaxDocs
  /\ rows[1].bs = NoDate /\ rows[1].pe = [y |-> 2025, m |-> 7]
  /\ rows[2].bs = NoDate /\ rows[2].pe = NoDate
  /\ fb.m = 12
  /\ handed[<<2025, "H2">>] = <<rows[1]>>
  /\ handed[<<fb.y, "H2">>] = <<rows[2]>>

\* DedupKey of a row: the entity key with the balance-sheet date, or with the
\* period end when there is no balance-sheet date
DedupKeyOf(r) == <<r.key, IF r.bs # NoDate THEN r.bs ELSE r.pe>>

\* C36: after any sequence of ingestion runs, with whatever fallback dates,
\* no two rows with an entity key and the same DedupKey are stored in two
\* different financial partitions.
C36_OneDedupKeyOnePartition ==
  \A p, q \in Partitions :
    p # q =>
      \A i \in 1..Len(ledger[p]), j \in 1..Len(ledger[q]) :
        ledger[p][i].key \notin {None, ""} =>
          DedupKeyOf(ledger[p][i]) # DedupKeyOf(ledger[q][j])

\* C18: _parse_daily_zip holds one row per document parsed so far, in
\* discovery order, and returns one row per document: a document whose parse
\* raised has a row with the error field set and run label and source filled,
\* and the documents after it are parsed as usual.
C18_OneRowPerDocument ==
  /\ Len(rows) <= Len(inner)
  /\ ipc # "parse" => Len(rows) = Len(inner)
  /\ \A i \in 1..Len(rows) :
       /\ rows[i].error = (inner[i].raises # "no")
       /\ rows[i].run_code = RunCode
       /\ rows[i].zip_url = ZipUrl
       /\ inner[i].raises = "no" =>
            (rows[i].key = inner[i].key /\ rows[i].bs = inner[i].bs /\ rows[i].pe = inner[i].pe)

\* C18 witness: the first document's parse raised and the second was parsed
C18_Witness ==
  /\ ipc # "parse"
  /\ Len(inner) = MaxDocs
  /\ inner[1].raises = "early"
  /\ rows[1].error
  /\ inner[2].raises = "no" /\ inner[2].key = "88092"
  /\ rows[2].key = "88092" /\ ~rows[2].error

\* --------------------------- SpecPick -----------------------------------
\* get_number(doc, logical_name) on one document, for one canonical field.

MaxFacts == 3

NumValues == 2

NumDates == 2

NumSyn == 2

\* a fact: syn = its name is one of CONCEPTS[logical_name], ptype = what
\* _period_type gives for it, val = its scaled value, date = what
\* _period_dates gives for it (0: no date), pos = the place of its name in
\* CONCEPTS[logical_name] when it is in that list
Facts ==
  [syn : BOOLEAN, ptype : {"instant", "duration"}, val : 1..NumValues, date : {0}, pos : {1}]
    \cup [syn : {TRUE}, ptype : {"instant", "duration"}, val : {1},
           date : 0..NumDates, pos : 1..NumSyn]

Unpicked == [called |-> FALSE]

\* return None, None, None, None
PickedNone == [called |-> TRUE, found |-> FALSE]

\* candidates: the facts with f.name in qnames, in document order
Candidates(fs) == SelectSeq(fs, LAMBDA f : f.syn)

\* candidates.sort(key=lambda t: (t[0] != prefer,)): a stable sort, the
\* candidates of the preferred period type first
SortPreferred(cs, pr) ==
  SelectSeq(cs, LAMBDA f : f.ptype = pr) \o SelectSeq(cs, LAMBDA f : f.ptype # pr)

\* _pick_fact(doc, qnames, prefer)
PickFact(fs, pr) ==
  IF Candidates(fs) = <<>> THEN PickedNone
  ELSE LET fact == SortPreferred(Candidates(fs), pr)[1]
       IN  [called |-> TRUE, found |-> TRUE, val |-> fact.val, period |-> fact.ptype,
            date |-> fact.date, name |-> fact.pos]

InitPick ==
  /\ HalvesIdle
  /\ UploadIdle
  /\ ApiIdle
  /\ ColsIdle
  /\ ScaleIdle
  /\ GetIdle
  /\ SnapIdle
  /\ DedupIdle
  /\ AmountIdle
  /\ WalkIdle
  /\ NormIdle
  /\ MergeIdle
  /\ StoreIdle
  /\ WritersIdle
  /\ FillIdle
  /\ PaceIdle
  /\ SyncIdle
  /\ IngestIdle
  /\ facts \in SeqsUpTo(Facts, MaxFacts)
  /\ prefer \in {"instant", "duration"}
  /\ picked = Unpicked

\* val, bs_date, pe = get_number(doc, field)
GetNumber ==
  /\ ~picked.called
  /\ picked' = PickFact(facts, prefer)
  /\ UNCHANGED <<corevars, yvars, uvars, lvars, hvars, cvars, gvars, svars, dvars, avars, wkvars, nvars, pvars, syvars, ivars, facts, prefer>>

NextPick == GetNumber

SpecPick == InitPick /\ [][NextPick]_vars

\* C14: the Resolver never returns the value of a fact of the other period
\* type: a balance-sheet field takes no duration-typed fact and a profit/loss
\* field no instant-typed one; when the synonym-matching facts are all of the
\* other type the result is none.
C14_NeverWronglyTypedFact ==
  picked.called =>
    /\ picked.found => picked.period = prefer
    /\ (\A i \in 1..Len(facts) : facts[i].syn => facts[i].ptype # prefer) => ~picked.found

\* --------------------------- SpecNorm -----------------------------------
\* The three key normalisers of the backfill coordinators applied to one raw
\* identifier.  A string is a sequence of characters.

MaxShortLen == 4
MaxLongLen == 8

Digits == {"0", "1", "2", "3", "4", "5", "6", "7", "8", "9"}

Letters == {"S", "C"}

Spaces == {" "}

\* the characters of the short inputs, and those of the identifier-length ones
ShortAlphabet == {"0", "8", " ", ",", "S"}

LongAlphabet == {"0", "8", "S"}

NoStr == [some |-> FALSE]

Str(s) == [some |-> TRUE, s |-> s]

RawInputs ==
  {NoStr} \cup {Str(s) : s \in SeqsUpTo(ShortAlphabet, MaxShortLen)}
          \cup {Str(s) : s \in {t \in SeqsUpTo(LongAlphabet, MaxLongLen) : Len(t) > MaxShortLen}}

RECURSIVE Strip(_)
\* str.strip()
Strip(s) ==
  IF s = <<>> THEN s
  ELSE IF s[1] \in Spaces THEN Strip(Tail(s))
  ELSE IF s[Len(s)] \in Spaces THEN Strip(SubSeq(s, 1, Len(s) - 1))
  ELSE s

\* "".join(ch for ch in s if ch.isdigit())
DigitsOnly(s) == SelectSeq(s, LAMBDA ch : ch \in Digits)

\* leading zeros kept: NOT what the code does
LstripZerosKept(s) == s

RECURSIVE LstripZeros(_)
\* s.lstrip("0")
LstripZeros(s) == IF s # <<>> /\ s[1] = "0" THEN LstripZeros(Tail(s)) ELSE s

\* s or None
OrNone(s) == IF s = <<>> THEN NoStr ELSE Str(s)

\* norm_ixbrl_id(x)
NormIxbrlId(x) ==
  IF ~x.some THEN NoStr ELSE OrNone(LstripZeros(DigitsOnly(Strip(x.s))))

\* normalize_to_ixbrl_format(x)
NormalizeToIxbrlFormat(x) ==
  IF ~x.some THEN NoStr ELSE OrNone(LstripZeros(DigitsOnly(Strip(x.s))))

\* \w of the regular expression
WordChar(ch) == ch \in Digits \cup Letters

\* \b at the gap before position i (1..Len(s)+1)
Boundary(s, i) ==
  LET before == i > 1 /\ WordChar(s[i - 1])
      after == i <= Len(s) /\ WordChar(s[i])
  IN  before # after

AllIn(s, from, to, S) == \A j \in from..to : s[j] \in S

\* [A-Z]{2}\d{6} between two \b, starting at i
PrefixedAt(s, i) ==
  /\ i + 7 <= Len(s)
  /\ AllIn(s, i, i + 1, Letters)
  /\ AllIn(s, i + 2, i + 7, Digits)
  /\ Boundary(s, i) /\ Boundary(s, i + 8)

\* \d{6,8} between two \b, starting at i and n digits long
DigitsAt(s, i, n) ==
  /\ i + n - 1 <= Len(s)
  /\ AllIn(s, i, i + n - 1, Digits)
  /\ Boundary(s, i) /\ Boundary(s, i + n)

MinDigits == 6
MaxDigits == 8

\* _COMP_RE.search(s).group(1): the leftmost match, the first alternative
\* before the second, the longest run of digits first
CompReSearch(s) ==
  LET hits == {i \in 1..Len(s) :
                 PrefixedAt(s, i) \/ \E n \in MinDigits..MaxDigits : DigitsAt(s, i, n)}
  IN  IF hits = {} THEN NoStr
      ELSE LET i == CHOOSE h \in hits : \A g \in hits : h <= g
           IN  IF PrefixedAt(s, i) THEN Str(SubSeq(s, i, i + 7))
               ELSE LET n == CHOOSE k \in MinDigits..MaxDigits :
                                /\ DigitsAt(s, i, k)
                                /\ \A l \in MinDigits..MaxDigits : DigitsAt(s, i, l) => l <= k
                    IN  Str(SubSeq(s, i, i + n - 1))

\* cn.zfill(8)
Zfill(s) == [j \in 1..(MaxDigits - Len(s)) |-> "0"] \o s

\* canon_company_number(x); str.upper() is the identity on these characters
CanonCompanyNumber(x) ==
  IF ~x.some THEN NoStr
  ELSE LET m == CompReSearch(Strip(x.s))
       IN  IF ~m.some THEN NoStr
           ELSE IF AllIn(m.s, 1, Len(m.s), Digits) /\ Len(m.s) < MaxDigits THEN Str(Zfill(m.s))
           ELSE m

Uncalled == [called |-> FALSE]

Returned(v) == [called |-> TRUE, v |-> v]

InitNorm ==
  /\ HalvesIdle
  /\ UploadIdle
  /\ ApiIdle
  /\ ColsIdle
  /\ ScaleIdle
  /\ GetIdle
  /\ SnapIdle
  /\ DedupIdle
  /\ AmountIdle
  /\ WalkIdle
  /\ MergeIdle
  /\ StoreIdle
  /\ WritersIdle
  /\ FillIdle
  /\ PaceIdle
  /\ SyncIdle
  /\ IngestIdle
  /\ PickIdle
  /\ raw \in RawInputs
  /\ normed = Uncalled
  /\ snapNormed = Uncalled
  /\ canon = Uncalled

\* metadata_bulk_api_fill: fin_ids_series.map(norm_ixbrl_id)
CallNormIxbrlId ==
  /\ ~normed.called
  /\ normed' = Returned(NormIxbrlId(raw))
  /\ UNCHANGED <<corevars, yvars, uvars, lvars, hvars, cvars, gvars, svars, dvars, avars, wkvars, pvars, syvars, ivars, kvars, raw, snapNormed, canon>>

\* metadata_bulk_from_snapshot: .map(normalize_to_ixbrl_format)
CallNormalizeToIxbrlFormat ==
  /\ ~snapNormed.called
  /\ snapNormed' = Returned(NormalizeToIxbrlFormat(raw))
  /\ UNCHANGED <<corevars, yvars, uvars, lvars, hvars, cvars, gvars, svars, dvars, avars, wkvars, pvars, syvars, ivars, kvars, raw, normed, canon>>

\* metadata_snapshot_and_fill: canon = canon_company_number(raw)
CallCanonCompanyNumber ==
  /\ ~canon.called
  /\ canon' = Returned(CanonCompanyNumber(raw))
  /\ UNCHANGED <<corevars, yvars, uvars, lvars, hvars, cvars, gvars, svars, dvars, avars, wkvars, pvars, syvars, ivars, kvars, raw, normed, snapNormed>>

NextNorm == CallNormIxbrlId \/ CallNormalizeToIxbrlFormat \/ CallCanonCompanyNumber

SpecNorm == InitNorm /\ [][NextNorm]_vars

\* the claimed result for a raw string: a string of digits that does not
\* start with a zero and is what is left of the digits of the input once its
\* leading zeros are gone; none exactly when the input has no non-zero digit
IsKeyOf(out, x) ==
  LET ds == SelectSeq(x, LAMBDA ch : ch \in Digits)
  IN  /\ out.some <=> \E j \in 1..Len(x) : x[j] \in Digits \ {"0"}
      /\ out.some =>
           /\ \A j \in 1..Len(out.s) : out.s[j] \in Digits
           /\ out.s[1] # "0"
           /\ \E k \in 0..Len(ds) :
                /\ \A j \in 1..k : ds[j] = "0"
                /\ out.s = SubSeq(ds, k + 1, Len(ds))

ExampleKey == <<"8", "8", "0", "9", "2">>

ExampleRaws ==
  { <<"0", "0", "0", "8", "8", "0", "9", "2">>,
    <<"8", "8", "0", "9", "2">>,
    <<" ", "8", "8", ",", "0", "9", "2", " ">> }

\* C16: the entity-key normalisation of the metadata coordinators keeps only
\* the digits of a raw identifier and strips the leading zeros; "00088092",
\* "88092" and " 88,092 " all give "88092"; the result is none when no
\* non-zero digit remains; normalising a key again returns the same key.
C16_KeyNormalisation ==
  /\ \A x \in ExampleRaws :
       /\ NormIxbrlId(Str(x)) = Str(ExampleKey)
       /\ NormalizeToIxbrlFormat(Str(x)) = Str(ExampleKey)
  /\ normed.called =>
       /\ raw.some => IsKeyOf(normed.v, raw.s)
       /\ ~raw.some => ~normed.v.some
       /\ NormIxbrlId(normed.v) = normed.v
  /\ snapNormed.called =>
       /\ raw.some => IsKeyOf(snapNormed.v, raw.s)
       /\ ~raw.some => ~snapNormed.v.some
       /\ NormalizeToIxbrlFormat(snapNormed.v) = snapNormed.v

\* both normalisers have turned "0 8,8"-like input with a leading zero and a
\* separator into its key
C16_Witness ==
  /\ normed.called /\ snapNormed.called
  /\ raw = Str(<<"0", "8", ",", "8">>)
  /\ normed.v = Str(<<"8", "8">>)
  /\ snapNormed.v = Str(<<"8", "8">>)

\* identifiers a raw identifier is compared with: the same company written
\* zero-padded, bare, and with a jurisdiction prefix
Comparands ==
  { <<"0", "0", "0", "8", "8", "0", "8", "8">>,
    <<"8", "8", "0", "8", "8">>,
    <<"S", "C", "0", "8", "8", "0", "8", "8">> }

\* C17: the snapshot coordinator applies the same rule as the other two:
\* no financial identifier with a non-empty digits-only key is left out of
\* financial_keys, and two raw identifiers are the same entity for
\* canon_company_number exactly when their digits-only, leading-zero-stripped
\* keys are equal.
C17_OneNormalisationRule ==
  (canon.called /\ normed.called /\ raw.some) =>
    /\ normed.v.some => canon.v.some
    /\ \A b \in Comparands :
         (canon.v.some /\ canon.v = CanonCompanyNumber(Str(b)))
           <=> (normed.v.some /\ normed.v = NormIxbrlId(Str(b)))

\* a registered company number: 8 digits, or 2 letters and 6 digits
IsRegisteredNumber(s) ==
  /\ Len(s) = 8
  /\ AllIn(s, 3, 8, Digits)
  /\ AllIn(s, 1, 2, Digits) \/ AllIn(s, 1, 2, Letters)

\* the registered numbers that differ from s in the first two characters only
SameTail(s) ==
  {pre \o SubSeq(s, 3, 8) :
     pre \in {<<"0", "0">>, <<"0", "8">>, <<"8", "0">>, <<"8", "8">>, <<"S", "S">>, <<"S", "C">>}}
    \ {s}

\* C37: two registered company numbers of different companies, such as
\* SC123456 and 00123456, never normalise to the same entity key, in neither
\* of the two entity-key normalisers (a number without key merges with none).
C37_DistinctCompaniesDistinctKeys ==
  (raw.some /\ IsRegisteredNumber(raw.s)) =>
    \A b \in SameTail(raw.s) :
      /\ (normed.called /\ normed.v.some) => normed.v # NormIxbrlId(Str(b))
      /\ (snapNormed.called /\ snapNormed.v.some) =>
           snapNormed.v # NormalizeToIxbrlFormat(Str(b))

\* --------------------------- SpecWalk -----------------------------------
\* The document walker.  An archive is the sequence of its entries; an entry
\* is a document (.htm/.html/.xhtml), another file, a nested archive, or a
\* .zip entry that is not a readable archive.

MaxDepth == 2
MaxEntries == 2

DocEntry == [kind |-> "doc"]

OtherEntry == [kind |-> "other"]

BadZipEntry == [kind |-> "bad"]

ZipEntry(items) == [kind |-> "zip", items |-> items]

RECURSIVE Archives(_)
\* the archives with nested archives at most d levels deep
Archives(d) ==
  SeqsUpTo({DocEntry, OtherEntry}
             \cup (IF d = 0 THEN {}
                   ELSE {BadZipEntry} \cup {ZipEntry(a) : a \in Archives(d - 1)}),
           MaxEntries)

\* the inner loop: the documents directly inside the nested archive at entry i
NestedDocs(items, i) ==
  LET nz == items[i].items
      idx == SelectSeq([j \in 1..Len(nz) |-> j], LAMBDA j : nz[j].kind = "doc")
  IN  [k \in 1..Len(idx) |-> <<i, idx[k]>>]

RECURSIVE IterHtml(_, _)
\* iter_html_from_zip_bytes(zip_bytes) from entry i on: the list of yields,
\* or raised when a .zip member is not a readable archive
IterHtml(items, i) ==
  IF i > Len(items) THEN [raised |-> FALSE, out |-> <<>>]
  ELSE IF items[i].kind = "bad" THEN [raised |-> TRUE, out |-> <<>>]
  ELSE LET rest == IterHtml(items, i + 1)
           here == IF items[i].kind = "zip" THEN NestedDocs(items, i)
                   ELSE IF items[i].kind = "doc" THEN << <<i>> >>
                   ELSE <<>>
       IN  [raised |-> rest.raised, out |-> here \o rest.out]

InitWalk ==
  /\ HalvesIdle
  /\ UploadIdle
  /\ ApiIdle
  /\ ColsIdle
  /\ ScaleIdle
  /\ GetIdle
  /\ SnapIdle
  /\ DedupIdle
  /\ AmountIdle
  /\ MergeIdle
  /\ StoreIdle
  /\ WritersIdle
  /\ FillIdle
  /\ PaceIdle
  /\ SyncIdle
  /\ IngestIdle
  /\ PickIdle
  /\ NormIdle
  /\ zroot \in Archives(MaxDepth)
  /\ zi = 0
  /\ yielded = <<>>
  /\ sampled = Uncalled

\* _iter_ixbrl_files_from_zip: the entry is a document
YieldLeaf ==
  /\ zi < Len(zroot)
  /\ zroot[zi + 1].kind = "doc"
  /\ yielded' = Append(yielded, <<zi + 1>>)
  /\ zi' = zi + 1
  /\ UNCHANGED <<corevars, yvars, uvars, lvars, hvars, cvars, gvars, svars, dvars, avars, pvars, syvars, ivars, kvars, nvars, zroot, sampled>>

\* _iter_ixbrl_files_from_zip: the entry is a nested archive
DescendNested ==
  /\ zi < Len(zroot)
  /\ zroot[zi + 1].kind = "zip"
  /\ yielded' = yielded \o NestedDocs(zroot, zi + 1)
  /\ zi' = zi + 1
  /\ UNCHANGED <<corevars, yvars, uvars, lvars, hvars, cvars, gvars, svars, dvars, avars, pvars, syvars, ivars, kvars, nvars, zroot, sampled>>

\* _iter_ixbrl_files_from_zip: except zipfile.BadZipFile: continue
SkipBadZip ==
  /\ zi < Len(zroot)
  /\ zroot[zi + 1].kind = "bad"
  /\ zi' = zi + 1
  /\ UNCHANGED <<corevars, yvars, uvars, lvars, hvars, cvars, gvars, svars, dvars, avars, pvars, syvars, ivars, kvars, nvars, zroot, yielded, sampled>>

\* _iter_ixbrl_files_from_zip: neither suffix matches
SkipOther ==
  /\ zi < Len(zroot)
  /\ zroot[zi + 1].kind = "other"
  /\ zi' = zi + 1
  /\ UNCHANGED <<corevars, yvars, uvars, lvars, hvars, cvars, gvars, svars, dvars, avars, pvars, syvars, ivars, kvars, nvars, zroot, yielded, sampled>>

\* sample_ixbrl_month: for name, html in iter_html_from_zip_bytes(...)
SampleWalk ==
  /\ ~sampled.called
  /\ sampled' = Returned(IterHtml(zroot, 1))
  /\ UNCHANGED <<corevars, yvars, uvars, lvars, hvars, cvars, gvars, svars, dvars, avars, pvars, syvars, ivars, kvars, nvars, zroot, zi, yielded>>

NextWalk == YieldLeaf \/ DescendNested \/ SkipBadZip \/ SkipOther \/ SampleWalk

SpecWalk == InitWalk /\ [][NextWalk]_vars

RECURSIVE LeafPaths(_)
\* the paths of all the documents of an archive, at any depth
LeafPaths(items) ==
  UNION { IF items[i].kind = "doc" THEN {<<i>>}
          ELSE IF items[i].kind = "zip"
               THEN {<<i>> \o q : q \in LeafPaths(items[i].items)}
               ELSE {} : i \in 1..Len(items) }

ExactlyOnce(out, S) ==
  /\ {out[k] : k \in 1..Len(out)} = S
  /\ \A k, l \in 1..Len(out) : out[k] = out[l] => k = l

\* C19: once the walk of an archive is over, every leaf document of the
\* archive, at any nesting depth, has been yielded, and each exactly once.
C19_EveryLeafExactlyOnce ==
  /\ zi = Len(zroot) => ExactlyOnce(yielded, LeafPaths(zroot))
  /\ (sampled.called /\ ~sampled.v.raised) => ExactlyOnce(sampled.v.out, LeafPaths(zroot))

\* the outer archive has a .zip member that is not a readable archive
HasCorruptMember == \E i \in 1..Len(zroot) : zroot[i].kind = "bad"

\* C31: when a nested archive of the outer archive cannot be opened, neither
\* walker raises, and once the walk is over every leaf document of the other
\* members, before and after the corrupt one, has been yielded.
C31_CorruptInnerSkipped ==
  HasCorruptMember =>
    /\ zi = Len(zroot) => ExactlyOnce(yielded, LeafPaths(zroot))
    /\ sampled.called =>
         /\ ~sampled.v.raised
         /\ ExactlyOnce(sampled.v.out, LeafPaths(zroot))

\* --------------------------- SpecAmount ---------------------------------
\* The two amount parsers applied to one raw value.  A parsed number is a
\* decimal m * 10^-f without trailing zeros after the point, so that 1234.50
\* and 1234.5 are the same number, as they are the same float.

MaxAmountLen == 5

AmountAlphabet == {"1", "0", ".", ",", "(", ")", "£", " ", "-"}

MaxMixedLen == 3

\* text with letters among the digits
MixedAlphabet == {"1", "e", " "}

RawAmounts ==
  {NoStr} \cup {Str(s) : s \in SeqsUpTo(AmountAlphabet, MaxAmountLen)}
          \cup {Str(s) : s \in SeqsUpTo(MixedAlphabet, MaxMixedLen)}

RECURSIVE Dec(_, _)
\* the decimal m * 10^-f
Dec(m, f) == IF f > 0 /\ m % 10 = 0 THEN Dec(m \div 10, f - 1) ELSE [m |-> m, f |-> f]

\* -x
Neg(v) == [m |-> 0 - v.m, f |-> v.f]

RECURSIVE IntOf(_)
\* the integer a string of digits denotes; 0 for the empty string
IntOf(ds) ==
  IF ds = <<>> THEN 0
  ELSE 10 * IntOf(SubSeq(ds, 1, Len(ds) - 1))
         + (CHOOSE d \in 0..9 : <<"0", "1", "2", "3", "4", "5", "6", "7", "8", "9">>[d + 1] = ds[Len(ds)])

NoNum == [some |-> FALSE]

Num(v) == [some |-> TRUE, v |-> v]

\* float(s) for s over digits, ".", "-" and "+": an optional sign, then digits
\* with at most one point and at least one digit; anything else raises
PyFloat(s) ==
  LET signed == s # <<>> /\ s[1] \in {"-", "+"}
      body == IF signed THEN Tail(s) ELSE s
      points == {j \in 1..Len(body) : body[j] = "."}
      ds == SelectSeq(body, LAMBDA ch : ch \in Digits)
      frac == IF points = {} THEN 0 ELSE Len(body) - (CHOOSE j \in points : TRUE)
      ok == /\ \A j \in 1..Len(body) : body[j] \in Digits \cup {"."}
            /\ Cardinality(points) <= 1
            /\ ds # <<>>
      mag == Dec(IntOf(ds), frac)
  IN  IF ~ok THEN NoNum
      ELSE Num(IF signed /\ s[1] = "-" THEN Neg(mag) ELSE mag)

\* s.startswith("(") and s.endswith(")")
Parenthesised(s) == s # <<>> /\ s[1] = "(" /\ s[Len(s)] = ")"

\* parentheses left alone: NOT what the code does
ParenKept(s) == s

\* _to_float: if s.startswith("(") and s.endswith(")"): s = "-" + s[1:-1]
ParenNegate(s) == IF Parenthesised(s) THEN <<"-">> \o SubSeq(s, 2, Len(s) - 1) ELSE s

\* _to_float(x)
ToFloat(x) ==
  IF ~x.some THEN NoNum
  ELSE LET s == Strip(x.s)
       IN  IF s = <<>> \/ s = <<"n", "a", "n">> THEN NoNum
           ELSE LET t == SelectSeq(ParenNegate(s), LAMBDA ch : ch \in Digits \cup {"-", ".", "+"})
                IN  IF t \in {<<>>, <<"-">>, <<"+">>} THEN NoNum ELSE PyFloat(t)

\* _to_number(val)
ToNumber(x) ==
  IF ~x.some THEN NoNum
  ELSE LET s == Strip(x.s)
           neg == Parenthesised(s)
           t == SelectSeq(s, LAMBDA ch : ch \in Digits \cup {".", "-"})
       IN  IF s = <<>> \/ t = <<>> THEN NoNum
           ELSE IF ~PyFloat(t).some THEN NoNum
           ELSE Num(IF neg THEN Neg(PyFloat(t).v) ELSE PyFloat(t).v)

InitAmount ==
  /\ HalvesIdle
  /\ UploadIdle
  /\ ApiIdle
  /\ ColsIdle
  /\ ScaleIdle
  /\ GetIdle
  /\ SnapIdle
  /\ DedupIdle
  /\ MergeIdle
  /\ StoreIdle
  /\ WritersIdle
  /\ FillIdle
  /\ PaceIdle
  /\ SyncIdle
  /\ IngestIdle
  /\ PickIdle
  /\ NormIdle
  /\ WalkIdle
  /\ amt \in RawAmounts
  /\ asFloat = Uncalled
  /\ asNumber = Uncalled

\* ixbrl_fetch_daily: _to_float(...) on the text of a fact
CallToFloat ==
  /\ ~asFloat.called
  /\ asFloat' = Returned(ToFloat(amt))
  /\ UNCHANGED <<corevars, yvars, uvars, lvars, hvars, cvars, gvars, svars, dvars, pvars, syvars, ivars, kvars, nvars, wkvars, amt, asNumber>>

\* concepts: _to_number(v) on the text of a fact
CallToNumber ==
  /\ ~asNumber.called
  /\ asNumber' = Returned(ToNumber(amt))
  /\ UNCHANGED <<corevars, yvars, uvars, lvars, hvars, cvars, gvars, svars, dvars, pvars, syvars, ivars, kvars, nvars, wkvars, amt, asFloat>>

NextAmount == CallToFloat \/ CallToNumber

SpecAmount == InitAmount /\ [][NextAmount]_vars

\* what the claim strips: currency symbols, thousands separators, whitespace
Decoration == {"£", ",", " "}

\* the raw value without its enclosing parentheses and without decoration
Residue(s) ==
  LET b == Strip(s)
      within == IF Parenthesised(b) THEN SubSeq(b, 2, Len(b) - 1) ELSE b
  IN  SelectSeq(within, LAMBDA ch : ch \notin Decoration)

\* an unsigned decimal number: digits with at most one point
Unsigned(t) ==
  /\ \A j \in 1..Len(t) : t[j] \in Digits \cup {"."}
  /\ Cardinality({j \in 1..Len(t) : t[j] = "."}) <= 1
  /\ \E j \in 1..Len(t) : t[j] \in Digits

\* the claimed value of a decorated, possibly parenthesised unsigned amount
ClaimedAmount(s) ==
  LET mag == PyFloat(Residue(s)).v
  IN  Num(IF Parenthesised(Strip(s)) THEN Neg(mag) ELSE mag)

\* the claimed result for one raw value
ParsesAs(out, x) ==
  /\ (~x.some \/ Strip(x.s) = <<>>) => ~out.some
  /\ (x.some /\ Unsigned(Residue(x.s))) => out = ClaimedAmount(x.s)

C21_NeverInventsANumber ==
  (amt.some /\ \E j \in 1..Len(amt.s) : amt.s[j] \notin Digits \cup AmountAlphabet) =>
    /\ asFloat.called => ~asFloat.v.some
    /\ asNumber.called => ~asNumber.v.some

\* C22: when the partition has no snapshot, or its snapshot does not decode,
\* the merge completes without error and the file holds exactly the
\* deduplicated new rows: one row per DedupKey of the batch, the last one, in
\* batch order.
C22_MissingOrCorruptSnapshotIsEmpty ==
  (mCount >= 1 /\ mOld.st # "ok") =>
    /\ ~mRaised
    /\ file.st = "ok"
    /\ KeysOf(file.rows) = KeysOf(mNew)
    /\ \A i, j \in 1..Len(file.rows) :
         i < j => LastIdx(mNew, DedupKey(file.rows[i])) < LastIdx(mNew, DedupKey(file.rows[j]))
    /\ \A i \in 1..Len(file.rows) : file.rows[i] = mNew[LastIdx(mNew, DedupKey(file.rows[i]))]

\* C22 witness: a batch with two rows for one key was merged over a snapshot
\* that does not decode, and one row is left
C22_Witness ==
  /\ mCount >= 1
  /\ mOld = CorruptFile
  /\ Len(mNew) = MaxBatch
  /\ mNew[1].id = mNew[2].id /\ mNew[1].val # mNew[2].val
  /\ file = OkFile(<<mNew[2]>>)

\* --------------------------- SpecDedup ----------------------------------
\* One group of df_all.groupby("_route") merged into a partition that has no
\* financials.parquet yet.  All the dates lie in the half-year of the partition.

MaxPart == 3

PartDates == [y : {2025}, m : {7, 8}]

PartRows ==
  [key : {"88092", "123456"}, bs : {NoDate} \cup {[y |-> 2025, m |-> 7]}, pe : PartDates \cup {NoDate}]

InitDedup ==
  /\ HalvesIdle
  /\ UploadIdle
  /\ ApiIdle
  /\ ColsIdle
  /\ ScaleIdle
  /\ GetIdle
  /\ SnapIdle
  /\ MergeIdle
  /\ StoreIdle
  /\ WritersIdle
  /\ FillIdle
  /\ PaceIdle
  /\ SyncIdle
  /\ IngestIdle
  /\ PickIdle
  /\ NormIdle
  /\ WalkIdle
  /\ AmountIdle
  /\ grp \in SeqsUpTo(PartRows, MaxPart) \ {<<>>}
  /\ kept = Uncalled

\* ixbrl_bulk_parse.main: keys = ...; append_parquet(tmp_out, part, subset_keys=keys)
AppendPart ==
  /\ ~kept.called
  /\ kept' = Returned(MergeFresh(grp))
  /\ UNCHANGED <<corevars, yvars, uvars, lvars, hvars, cvars, gvars, svars, pvars, syvars, ivars, kvars, nvars, wkvars, avars, grp>>

NextDedup == AppendPart

SpecDedup == InitDedup /\ [][NextDedup]_vars

\* C23: two rows of one entity that both lack a balance-sheet date and have
\* different period-end dates both survive the merge, whatever else the
\* batch holds.
C23_PeriodEndRowsBothSurvive ==
  kept.called =>
    \A i, j \in 1..Len(grp) :
      (/\ grp[i].key = grp[j].key
       /\ grp[i].bs = NoDate /\ grp[j].bs = NoDate
       /\ grp[i].pe # NoDate /\ grp[j].pe # NoDate
       /\ grp[i].pe # grp[j].pe)
        => {grp[i], grp[j]} \subseteq Range(kept.v)

\* the synonym-matching facts of the field's expected period type
Expected == SelectSeq(facts, LAMBDA f : f.syn /\ f.ptype = prefer)

\* C24: when the document has synonym-matching facts of the expected period
\* type, the Resolver returns one with the most recent period date among them,
\* and an undated one only if none of them is dated.
C24_MostRecentlyDatedFact ==
  (picked.called /\ Expected # <<>>) =>
    /\ picked.found
    /\ \A i \in 1..Len(Expected) : Expected[i].date <= picked.date

\* C25: when the synonym-matching facts of the expected period type all have
\* the same date, the Resolver returns the one whose name comes first in the
\* synonym list, wherever it stands in the document.
C25_TieBrokenBySynonymOrder ==
  (/\ picked.called
   /\ Expected # <<>>
   /\ \A i, j \in 1..Len(Expected) : Expected[i].date = Expected[j].date) =>
    /\ picked.found
    /\ \A i \in 1..Len(Expected) : picked.name <= Expected[i].pos

\* --------------------------- SpecSnap -----------------------------------
\* One run of metadata_snapshot_and_fill.main on one registry partition.  The
\* store answers every request.  A key is the string stored in
\* companies_house_registered_number: key e >= 1 is the eight-character form
\* of company e, as the financial rows and this coordinator write it; key
\* ShortDigitsKey is the digits-only form of company ShortEntity, fewer than
\* six digits long, as metadata_bulk_api_fill writes it.  Time is in minutes.

NumSnapIds == 3
MaxBudget == 2
MaxSnapBatch == 2
MaxSnapLimit == 1
MaxElapsed == 3

ShortEntity == 1

ShortDigitsKey == 0

\* the 60 seconds left for the final upload
Reserve == 1

SnapIds == 1..NumSnapIds

EntityOfKey(k) == IF k = ShortDigitsKey THEN ShortEntity ELSE k

EntitiesOf(f) == {EntityOfKey(k) : k \in KeysOf(f.rows)}

\* set(filter(None, (canon_company_number(x) for x in existing_vals))):
\* canon_company_number gives None for a key of fewer than six digits
ExistingCanon(f) == KeysOf(f.rows) \ {ShortDigitsKey}

\* build_metadata_from_snapshot: the row of company e, sic_codes a list
SnapRow(e) == [id |-> e, val |-> NumVals, sic |-> snapSic]

\* remain_canon = fin_canon_set - existing_canon, cut to --limit
CountCapped(todo) ==
  IF slimit > 0 /\ Cardinality(todo) > slimit THEN slimit ELSE Cardinality(todo)

\* budget_secs and (time.time() - t0) > (budget_secs - 60)
PastBudget == sbudget # 0 /\ elapsed > sbudget - Reserve

InitSnap ==
  /\ HalvesIdle
  /\ UploadIdle
  /\ ApiIdle
  /\ ColsIdle
  /\ ScaleIdle
  /\ GetIdle
  /\ MergeIdle
  /\ StoreIdle
  /\ WritersIdle
  /\ FillIdle
  /\ PaceIdle
  /\ SyncIdle
  /\ IngestIdle
  /\ PickIdle
  /\ NormIdle
  /\ WalkIdle
  /\ AmountIdle
  /\ DedupIdle
  /\ spc = "collect"
  /\ sfin \in SUBSET SnapIds
  /\ sasset \in {MissingFile,
                 OkFile(<<[id |-> ShortDigitsKey, val |-> 1, sic |-> SicOne]>>),
                 OkFile(<<[id |-> NumSnapIds, val |-> 1, sic |-> SicOne]>>),
                 OkFile(<<[id |-> NumSnapIds, val |-> 1, sic |-> SicMany]>>)}
  /\ snapHas \in SUBSET SnapIds
  /\ snapSic \in {SicOne, SicMany}
  /\ sbudget \in 0..MaxBudget
  /\ sbatch \in 1..MaxSnapBatch
  /\ slimit \in 0..MaxSnapLimit
  /\ sexisting = {}
  /\ sAtCollect = {}
  /\ snapCovered = {}
  /\ stodo = {}
  /\ scount = 0
  /\ si = 0
  /\ sbuf = <<>>
  /\ slooked = {}
  /\ sfetched = {}
  /\ elapsed = 0
  /\ slast = [kind |-> "none"]

\* steps 1 and 2: the financial keys are read, existing_canon is read from
\* metadata.parquet
CollectKeys ==
  /\ spc = "collect"
  /\ spc' = "snapshot"
  /\ sexisting' = ExistingCanon(sasset)
  /\ sAtCollect' = EntitiesOf(sasset)
  /\ UNCHANGED <<corevars, yvars, uvars, lvars, hvars, cvars, gvars, pvars, syvars, ivars, kvars, nvars, wkvars, avars, dvars,
                 sfin, sasset, snapHas, snapSic, sbudget, sbatch, slimit, snapCovered,
                 stodo, scount, si, sbuf, slooked, sfetched, elapsed, slast>>

\* step 4 up to the loop: remain_canon from the existing_canon left by step 3
StartFill(existing) ==
  /\ stodo' = sfin \ existing
  /\ scount' = CountCapped(sfin \ existing)
  /\ spc' = "fill"
  /\ \E d \in 0..1 : elapsed + d <= MaxElapsed /\ elapsed' = elapsed + d
  /\ UNCHANGED <<corevars, yvars, uvars, lvars, hvars, cvars, gvars, pvars, syvars, ivars, kvars, nvars, wkvars, avars, dvars,
                 sfin, snapHas, snapSic, sbudget, sbatch, slimit, sAtCollect,
                 si, sbuf, slooked, sfetched, slast>>

\* step 3 raises (no snapshot to download, or append_parquet raises): the
\* except clause logs it, existing_canon stays as it was
SnapshotSkipped ==
  /\ spc = "snapshot"
  /\ UNCHANGED <<sasset, sexisting, snapCovered>>
  /\ StartFill(sexisting)

\* step 3: the snapshot rows of the needed keys are merged and uploaded,
\* existing_canon is read again from the merged file
SnapshotMerge ==
  /\ spc = "snapshot"
  /\ LET matched == (sfin \ sexisting) \cap snapHas
         snap_meta == [j \in 1..Len(SortedSeq(matched)) |-> SnapRow(SortedSeq(matched)[j])]
     IN  IF matched = {} \/ AppendRaises(sasset, snap_meta)
         THEN /\ UNCHANGED <<sasset, sexisting, snapCovered>>
              /\ StartFill(sexisting)
         ELSE /\ sasset' = AppendParquet(sasset, snap_meta)
              /\ sexisting' = ExistingCanon(AppendParquet(sasset, snap_meta))
              /\ snapCovered' = matched
              /\ StartFill(ExistingCanon(AppendParquet(sasset, snap_meta)))

\* the checkpoint block and the final flush: download, append_parquet,
\* safe_upload, buffer.clear(); an exception of append_parquet is not caught
SnapFlush(buf, then) ==
  IF AppendRaises(sasset, buf)
  THEN spc' = "crashed" /\ sasset' = sasset /\ sbuf' = buf
  ELSE spc' = then /\ sasset' = AppendParquet(sasset, buf) /\ sbuf' = <<>>

\* if i % max(1, args.batch_size) == 0: if buffer: ...
SnapCheckpoint(i, buf) ==
  IF i % sbatch = 0 /\ buf # <<>>
  THEN SnapFlush(buf, "fill")
  ELSE spc' = "fill" /\ sasset' = sasset /\ sbuf' = buf

\* one iteration of the fetch loop for key c, with the given outcome
SnapIteration(c, kind) ==
  /\ spc = "fill"
  /\ si < scount
  /\ ~PastBudget
  /\ c \in stodo
  /\ stodo' = stodo \ {c}
  /\ si' = si + 1
  /\ slooked' = slooked \cup {c}
  /\ slast' = [kind |-> kind, key |-> c, buf |-> sbuf]
  /\ \E d \in 0..1 : elapsed + d <= MaxElapsed /\ elapsed' = elapsed + d
  /\ UNCHANGED <<corevars, yvars, uvars, lvars, hvars, cvars, gvars, pvars, syvars, ivars, kvars, nvars, wkvars, avars, dvars,
                 sfin, snapHas, snapSic, sbudget, sbatch, slimit, sexisting, sAtCollect,
                 snapCovered, scount>>

\* the profile is returned: the row is buffered, the checkpoint block runs
SnapLookupFound ==
  \E c \in stodo :
    /\ SnapIteration(c, "found")
    /\ sfetched' = sfetched \cup {c}
    /\ SnapCheckpoint(si + 1, Append(sbuf, ApiRow(c)))

\* HTTP 404: continue
SnapLookup404 ==
  \E c \in stodo :
    /\ SnapIteration(c, "404")
    /\ UNCHANGED <<sfetched, sasset, sbuf, spc>>

\* another HTTP status (a 429 that _get gave up on included) or an exception:
\* the except clause logs it, the checkpoint block runs
SnapLookupError ==
  \E c \in stodo :
    /\ SnapIteration(c, "error")
    /\ sfetched' = sfetched
    /\ SnapCheckpoint(si + 1, sbuf)

\* the loop is over, or left by break at the time budget: flush remaining
SnapFinish ==
  /\ spc = "fill"
  /\ si = scount \/ PastBudget
  /\ IF sbuf # <<>> THEN SnapFlush(sbuf, "done")
     ELSE spc' = "done" /\ UNCHANGED <<sasset, sbuf>>
  /\ slast' = [kind |-> "none"]
  /\ UNCHANGED <<corevars, yvars, uvars, lvars, hvars, cvars, gvars, pvars, syvars, ivars, kvars, nvars, wkvars, avars, dvars,
                 sfin, snapHas, snapSic, sbudget, sbatch, slimit, sexisting, sAtCollect,
                 snapCovered, stodo, scount, si, slooked, sfetched, elapsed>>

NextSnap ==
  \/ CollectKeys
  \/ SnapshotSkipped
  \/ SnapshotMerge
  \/ SnapLookupFound
  \/ SnapLookup404
  \/ SnapLookupError
  \/ SnapFinish

SpecSnap == InitSnap /\ [][NextSnap]_vars

\* C26: the phases run in the order COLLECT_KEYS, MERGE_SNAPSHOT, API_FILL,
\* DONE; the lookup set of API_FILL is the financial keys minus the registry
\* keys after the snapshot merge, and no company is looked up through the API
\* that had a row in the registry partition when the keys were collected or
\* that the snapshot merge of the same run covered.
C26_FillAfterSnapshotOnRemaining ==
  /\ spc \in {"collect", "snapshot"} => slooked = {}
  /\ spc = "collect" => snapCovered = {}
  /\ spc \in {"fill", "done", "crashed"} =>
       (slooked \cup stodo) \subseteq sfin \ (ExistingCanon(sasset) \ sfetched)
  /\ slooked \cap (sAtCollect \cup snapCovered) = {}

\* C27: with a non-zero time budget no lookup is started once the elapsed
\* time exceeds the budget minus the reserve, the run ends normally, and
\* when it has ended every row fetched is in the published partition.
C27_TimeBoxedRunFlushesAll ==
  sbudget # 0 =>
    /\ spc # "crashed"
    /\ (slast.kind # "none" /\ spc = "fill") => elapsed <= sbudget - Reserve + 1
    /\ spc = "done" => sfetched \subseteq KeysOf(sasset.rows)

\* C30: after a lookup that failed (404, another HTTP error, retries
\* exhausted, an exception) the buffer holds no row for that key, the rows
\* buffered before are kept (in the buffer or in the published partition),
\* and the run goes on with the next key.
C30_FailedLookupNotFatal ==
  slast.kind \in {"404", "error"} =>
    /\ spc # "crashed"
    /\ slast.key \notin KeysOf(sbuf)
    /\ KeysOf(slast.buf) \subseteq KeysOf(sbuf) \cup KeysOf(sasset.rows)

\* --------------------------- SpecGet ------------------------------------
\* One call _get(url, max_rpm=...) from the fetch loop, and what the loop
\* does with its result.  The pacing before each request is SpecPace.

MaxRetryAfter == 120

\* for _ in range(8)
MaxAttempts == 8

\* backoff = 2.0
FirstBackoff == 2

\* min(backoff * 2.0, 60.0)
BackoffCap == 60

\* the Retry-After header of a 429 response: absent, a number of seconds, or
\* text that is not all digits (an HTTP date)
RetryAfters ==
  {[present |-> FALSE], [present |-> TRUE, digits |-> FALSE]}
    \cup [present : {TRUE}, digits : {TRUE}, secs : {MaxRetryAfter}]

\* the statuses other than 429
OtherStatuses == {200, 404, 500}

\* the loop never gives up: NOT what the code does
LoopNeverOver(n) == FALSE

\* the for loop is exhausted
LoopOver(n) == n >= MaxAttempts

\* backoff doubled without a cap: NOT what the code does
NextBackoffUncapped(b) == b * 2

\* backoff = min(backoff * 2.0, 60.0)
NextBackoff(b) == IF b * 2 < BackoffCap THEN b * 2 ELSE BackoffCap

\* wait = float(ra) if ra and ra.strip().isdigit() else backoff
WaitFor(ra, b) == IF ra.present /\ ra.digits THEN ra.secs ELSE b

InitGet ==
  /\ HalvesIdle
  /\ UploadIdle
  /\ ApiIdle
  /\ ColsIdle
  /\ ScaleIdle
  /\ MergeIdle
  /\ StoreIdle
  /\ WritersIdle
  /\ FillIdle
  /\ PaceIdle
  /\ SyncIdle
  /\ IngestIdle
  /\ PickIdle
  /\ NormIdle
  /\ WalkIdle
  /\ AmountIdle
  /\ DedupIdle
  /\ SnapIdle
  /\ gpc = "calling"
  /\ nreq = 0
  /\ backoff = FirstBackoff
  /\ waits = <<>>
  /\ gstatus = 0
  /\ gcounted = 1
  /\ gwarned = FALSE

\* a request answered 429: sleep, double the backoff, next turn of the loop;
\* after the last turn return r
Get429 ==
  /\ gpc = "calling"
  /\ ~LoopOver(nreq)
  /\ \E ra \in RetryAfters :
       waits' = Append(waits, [ra |-> ra, wait |-> WaitFor(ra, backoff)])
  /\ nreq' = nreq + 1
  /\ backoff' = NextBackoff(backoff)
  /\ gstatus' = 429
  /\ gpc' = IF LoopOver(nreq + 1) THEN "returned" ELSE "calling"
  /\ UNCHANGED <<corevars, yvars, uvars, lvars, hvars, cvars, pvars, syvars, ivars, kvars, nvars, wkvars, avars, dvars, svars,
                 gcounted, gwarned>>

\* a request answered with another status: return r
GetOther ==
  /\ gpc = "calling"
  /\ ~LoopOver(nreq)
  /\ \E st \in OtherStatuses : gstatus' = st
  /\ nreq' = nreq + 1
  /\ gpc' = "returned"
  /\ UNCHANGED <<corevars, yvars, uvars, lvars, hvars, cvars, pvars, syvars, ivars, kvars, nvars, wkvars, avars, dvars, svars,
                 backoff, waits, gcounted, gwarned>>

\* SESS.get raises (timeout, connection error): the exception leaves _get
GetRaises ==
  /\ gpc = "calling"
  /\ ~LoopOver(nreq)
  /\ nreq' = nreq + 1
  /\ gpc' = "raised"
  /\ UNCHANGED <<corevars, yvars, uvars, lvars, hvars, cvars, pvars, syvars, ivars, kvars, nvars, wkvars, avars, dvars, svars,
                 backoff, waits, gstatus, gcounted, gwarned>>

\* the fetch loop: 404 is logged and skipped, raise_for_status raises for
\* 4xx and 5xx, every exception is caught and logged
HandleResult ==
  /\ gpc \in {"returned", "raised"}
  /\ gwarned' = (gpc = "raised" \/ gstatus # 200)
  /\ gpc' = "handled"
  /\ UNCHANGED <<corevars, yvars, uvars, lvars, hvars, cvars, pvars, syvars, ivars, kvars, nvars, wkvars, avars, dvars, svars,
                 nreq, backoff, waits, gstatus, gcounted>>

NextGet == Get429 \/ GetOther \/ GetRaises \/ HandleResult

SpecGet == InitGet /\ [][NextGet]_vars

RECURSIVE Pow2(_)
Pow2(k) == IF k = 0 THEN 1 ELSE 2 * Pow2(k - 1)

MaxMant == 5
MaxFrac == 2
MaxScale == 3
MaxDecLen == 3

DecAlphabet == {"-", "+", "0", "3", ".", " ", "I"}

RECURSIVE Sci(_, _)
\* the number m * 10^e
Sci(m, e) ==
  IF m = 0 THEN [m |-> 0, e |-> 0]
  ELSE IF m % 10 = 0 THEN Sci(m \div 10, e + 1)
  ELSE [m |-> m, e |-> e]

\* the values _to_float hands over
ScaleValues == {NoNum} \cup {Num(Sci(m, 0 - f)) : m \in (0 - 2)..MaxMant, f \in 0..MaxFrac}

NoDecimals == [kind |-> "none"]

IntDecimals(n) == [kind |-> "int", n |-> n]

StrDecimals(t) == [kind |-> "str", s |-> t]

DecimalsInputs ==
  {NoDecimals} \cup {IntDecimals(n) : n \in (0 - MaxScale)..MaxScale}
               \cup {StrDecimals(t) : t \in SeqsUpTo(DecAlphabet, MaxDecLen)}
               \cup {StrDecimals(<<"I", "N", "F">>)}

\* int(s) for a str: surrounding whitespace dropped, an optional sign, then
\* digits only and at least one; anything else raises ValueError
PyInt(t) ==
  LET u == Strip(t)
      signed == u # <<>> /\ u[1] \in {"-", "+"}
      body == IF signed THEN Tail(u) ELSE u
      ok == body # <<>> /\ \A j \in 1..Len(body) : body[j] \in Digits
  IN  IF ~ok THEN NoNum
      ELSE Num(IF signed /\ u[1] = "-" THEN 0 - IntOf(body) ELSE IntOf(body))

\* try: d = int(decimals)  except Exception: (none)
IntOfDecimals(decimals) ==
  IF decimals.kind = "int" THEN Num(decimals.n) ELSE PyInt(decimals.s)

\* 10 ** k
Pow10(k) == Sci(1, k)

\* a * b
Times(a, b) == Sci(a.m * b.m, a.e + b.e)

\* the value returned as it came whatever the decimals: NOT what the code does
ScaleNever(val, decimals) == val

\* _scale_by_decimals(val, decimals)
ScaleByDecimals(val, decimals) ==
  IF ~val.some \/ decimals.kind = "none" THEN val
  ELSE LET d == IntOfDecimals(decimals)
       IN  IF ~d.some THEN val
           ELSE IF d.v < 0 THEN Num(Times(val.v, Pow10(0 - d.v)))
           ELSE val

InitScale ==
  /\ HalvesIdle
  /\ HalvesIdle
  /\ UploadIdle
  /\ UploadIdle
  /\ ApiIdle
  /\ ColsIdle
  /\ MergeIdle
  /\ StoreIdle
  /\ WritersIdle
  /\ FillIdle
  /\ PaceIdle
  /\ SyncIdle
  /\ IngestIdle
  /\ PickIdle
  /\ NormIdle
  /\ WalkIdle
  /\ AmountIdle
  /\ DedupIdle
  /\ SnapIdle
  /\ GetIdle
  /\ ColsIdle
  /\ ApiIdle
  /\ sval \in ScaleValues
  /\ sdec \in DecimalsInputs
  /\ scaled = Uncalled

\* _pick_fact: val = _scale_by_decimals(_to_float(fact.value), fact.decimals)
CallScale ==
  /\ ~scaled.called
  /\ scaled' = Returned(ScaleByDecimals(sval, sdec))
  /\ UNCHANGED <<corevars, yvars, uvars, lvars, hvars, pvars, syvars, ivars, kvars, nvars, wkvars, avars, dvars, svars, gvars,
                 yvars, uvars, hvars, lvars, sval, sdec>>

NextScale == CallScale

SpecScale == InitScale /\ [][NextScale]_vars

\* the decimals attribute denotes a negative integer: a negative int, or
\* text that is "-" and digits not all zero, whitespace around it aside
DenotesNegative(decimals) ==
  \/ decimals.kind = "int" /\ decimals.n < 0
  \/ /\ decimals.kind = "str"
     /\ LET u == Strip(decimals.s)
        IN  /\ Len(u) >= 2 /\ u[1] = "-"
            /\ \A j \in 2..Len(u) : u[j] \in Digits
            /\ \E j \in 2..Len(u) : u[j] # "0"

\* -decimals, for decimals that denote a negative integer
Negated(decimals) ==
  IF decimals.kind = "int" THEN 0 - decimals.n ELSE IntOf(Tail(Strip(decimals.s)))

\* x = v * 10^k: the same digits, the point k places to the right
IsTimesPow10(x, v, k) == x.m = v.m /\ (v.m # 0 => x.e = v.e + k)

\* C32: scale(value, decimals) is value * 10^(-decimals) when decimals is a
\* negative integer, so that scale(5, -3) = 5000, and the value unchanged when
\* decimals is zero, positive, absent or not an integer; none stays none.
C32_ScaleByDecimals ==
  /\ ScaleByDecimals(Num(Sci(5, 0)), IntDecimals(0 - 3)) = Num(Sci(5000, 0))
  /\ scaled.called =>
       /\ ~sval.some => ~scaled.v.some
       /\ (sval.some /\ DenotesNegative(sdec)) =>
            scaled.v.some /\ IsTimesPow10(scaled.v.v, sval.v, Negated(sdec))
       /\ ~DenotesNegative(sdec) => scaled.v = sval

\* C32 witness: 0.05 with the decimals text " -3" has become 50
C32_Witness ==
  /\ scaled.called
  /\ sval = Num(Sci(5, 0 - 2))
  /\ sdec = StrDecimals(<<" ", "-", "3">>)
  /\ scaled.v = Num(Sci(50, 0))

\* --------------------------- SpecCols -----------------------------------
\* The two snapshot-to-registry conversions looking for the company number
\* column of a snapshot.  A column name is a sequence of pieces: a word of
\* the expected name in either case, or a punctuation character.

MaxNameLen == 3
MaxCols == 2

Pieces == {"Company", "company", "Number", "number", "_", " "}

\* [A-Za-z0-9]
Alnum == {"Company", "company", "Number", "number"}

ColNames == SeqsUpTo(Pieces, MaxNameLen) \ {<<>>}

\* the headers read_csv gives: the names of a header are distinct
Headers ==
  {h \in SeqsUpTo(ColNames, MaxCols) : \A i, j \in 1..Len(h) : h[i] = h[j] => i = j}

\* str.lower()
Lower(piece) ==
  IF piece = "Company" THEN "company" ELSE IF piece = "Number" THEN "number" ELSE piece

\* _normalize_colname(name)
NormalizeColname(nm) ==
  LET alnum == SelectSeq(nm, LAMBDA piece : piece \in Alnum)
  IN  [j \in 1..Len(alnum) |-> Lower(alnum[j])]

CompanyNumber == <<"Company", "Number">>

RECURSIVE Col(_, _)
\* col(df, *candidates): m maps a normalised name to the last column that
\* has it; the first candidate found in m wins
Col(hdr, candidates) ==
  IF candidates = <<>> THEN NoStr
  ELSE LET hits == {j \in 1..Len(hdr) : NormalizeColname(hdr[j]) = NormalizeColname(Head(candidates))}
       IN  IF hits # {} THEN Str(hdr[CHOOSE j \in hits : \A l \in hits : l <= j])
           ELSE Col(hdr, Tail(candidates))

\* to_metadata_schema: keep = {src: dst ... if src in snap.columns}
KeptSource(hdr, src) ==
  IF \E j \in 1..Len(hdr) : hdr[j] = src THEN Str(src) ELSE NoStr

InitCols ==
  /\ HalvesIdle
  /\ HalvesIdle
  /\ UploadIdle
  /\ UploadIdle
  /\ ApiIdle
  /\ MergeIdle
  /\ StoreIdle
  /\ WritersIdle
  /\ FillIdle
  /\ PaceIdle
  /\ SyncIdle
  /\ IngestIdle
  /\ PickIdle
  /\ NormIdle
  /\ WalkIdle
  /\ AmountIdle
  /\ DedupIdle
  /\ SnapIdle
  /\ GetIdle
  /\ ScaleIdle
  /\ ApiIdle
  /\ header \in Headers
  /\ cnCol = Uncalled
  /\ keepCn = Uncalled

\* metadata_snapshot_and_fill.build_metadata_from_snapshot: cn = col(snap, "CompanyNumber")
BuildMetadataFromSnapshot ==
  /\ ~cnCol.called
  /\ cnCol' = Returned(Col(header, <<CompanyNumber>>))
  /\ UNCHANGED <<corevars, yvars, uvars, lvars, pvars, syvars, ivars, kvars, nvars, wkvars, avars, dvars, svars, gvars,
                 yvars, uvars, cvars, lvars, header, keepCn>>

\* metadata_bulk_from_snapshot.to_metadata_schema(snap)
ToMetadataSchema ==
  /\ ~keepCn.called
  /\ keepCn' = Returned(KeptSource(header, CompanyNumber))
  /\ UNCHANGED <<corevars, yvars, uvars, lvars, pvars, syvars, ivars, kvars, nvars, wkvars, avars, dvars, svars, gvars,
                 yvars, uvars, cvars, lvars, header, cnCol>>

NextCols == BuildMetadataFromSnapshot \/ ToMetadataSchema

SpecCols == InitCols /\ [][NextCols]_vars

\* the name without its non-alphanumeric characters, lower-cased
Folded(nm) ==
  LET alnum == SelectSeq(nm, LAMBDA piece : piece \notin {"_", " "})
  IN  [j \in 1..Len(alnum) |-> IF alnum[j] \in {"Company", "company"} THEN "company" ELSE "number"]

\* some column of the header is the company number column by its folded name
HasNumberColumn == \E j \in 1..Len(header) : Folded(header[j]) = <<"company", "number">>

\* C33: in every snapshot-to-registry conversion a source column is used as
\* CompanyNumber whenever its name equals "CompanyNumber" once the
\* non-alphanumeric characters are removed and the rest is lower-cased, as for
\* " companynumber" and "Company_Number".
C33_ColumnsMatchedInsensitively ==
  HasNumberColumn =>
    /\ cnCol.called =>
         cnCol.v.some /\ Folded(cnCol.v.s) = <<"company", "number">>
    /\ keepCn.called =>
         keepCn.v.some /\ Folded(keepCn.v.s) = <<"company", "number">>

\* --------------------------- SpecApi ------------------------------------
\* One iteration of the fetch loop of metadata_bulk_api_fill: the key of the
\* financial side, the number sent to the registry host, the row buffered.

\* fin_ids: the keys norm_ixbrl_id gives for the identifiers of a partition
FinKeys == {NormIxbrlId(x).s : x \in {y \in RawInputs : NormIxbrlId(y).some}}

\* the key sent as it is: NOT what the code does
ToApiAsIs(x) == x

\* to_api_company_number(ixbrl_id)
ToApiCompanyNumber(x) ==
  IF ~x.some \/ x.s = <<>> THEN NoStr
  ELSE LET s == Strip(x.s)
       IN  IF s # <<>> /\ AllIn(s, 1, Len(s), Digits) THEN Str(Zfill(s)) ELSE Str(s)

InitApi ==
  /\ HalvesIdle
  /\ HalvesIdle
  /\ UploadIdle
  /\ UploadIdle
  /\ MergeIdle
  /\ StoreIdle
  /\ WritersIdle
  /\ FillIdle
  /\ PaceIdle
  /\ SyncIdle
  /\ IngestIdle
  /\ PickIdle
  /\ NormIdle
  /\ WalkIdle
  /\ AmountIdle
  /\ DedupIdle
  /\ SnapIdle
  /\ GetIdle
  /\ ScaleIdle
  /\ ColsIdle
  /\ finKey \in FinKeys
  /\ apiCid = Uncalled
  /\ stored = Uncalled

\* api_cid = to_api_company_number(cid)
ToApi ==
  /\ ~apiCid.called
  /\ apiCid' = Returned(ToApiCompanyNumber(Str(finKey)))
  /\ UNCHANGED <<corevars, yvars, uvars, pvars, syvars, ivars, kvars, nvars, wkvars, avars, dvars, svars, gvars,
                 yvars, uvars, cvars, hvars, finKey, stored>>

\* the profile came with status 200: base = {... registered_number: cid ...};
\* buffer.append(base)
BufferRow ==
  /\ apiCid.called /\ apiCid.v.some
  /\ ~stored.called
  /\ stored' = Returned([companies_house_registered_number |-> finKey, asked |-> apiCid.v.s])
  /\ UNCHANGED <<corevars, yvars, uvars, pvars, syvars, ivars, kvars, nvars, wkvars, avars, dvars, svars, gvars,
                 yvars, uvars, cvars, hvars, finKey, apiCid>>

\* status 404 or an exception: a warning, nothing buffered
NoRow ==
  /\ apiCid.called /\ apiCid.v.some
  /\ ~stored.called
  /\ stored' = Returned([asked |-> apiCid.v.s])
  /\ UNCHANGED <<corevars, yvars, uvars, pvars, syvars, ivars, kvars, nvars, wkvars, avars, dvars, svars, gvars,
                 yvars, uvars, cvars, hvars, finKey, apiCid>>

NextApi == ToApi \/ BufferRow \/ NoRow

SpecApi == InitApi /\ [][NextApi]_vars

\* s is k with zeros in front, 8 characters in all
IsPaddedTo8(s, k) ==
  /\ Len(s) = 8
  /\ SubSeq(s, 8 - Len(k) + 1, 8) = k
  /\ \A j \in 1..(8 - Len(k)) : s[j] = "0"

\* C34: for a normalised digits-only key k of at most 8 digits, the number
\* sent to the registry host is k left-padded with zeros to width 8, its
\* normalisation is k again, and the row the lookup gives is stored under k.
C34_LookupPaddedStoredNormalised ==
  Len(finKey) <= 8 =>
    /\ apiCid.called =>
         /\ apiCid.v.some
         /\ IsPaddedTo8(apiCid.v.s, finKey)
         /\ NormIxbrlId(apiCid.v) = Str(finKey)
    /\ stored.called =>
         /\ IsPaddedTo8(stored.v.asked, finKey)
         /\ "companies_house_registered_number" \in DOMAIN stored.v =>
              stored.v.companies_house_registered_number = finKey

\* C34 witness: the key 88 was looked up as 00000088 and its row is buffered
\* under 88
C34_Witness ==
  /\ finKey = <<"8", "8">>
  /\ stored.called
  /\ stored.v = [companies_house_registered_number |-> <<"8", "8">>,
                 asked |-> <<"0", "0", "0", "0", "0", "0", "8", "8">>]

\* --------------------------- SpecUpload ---------------------------------
\* One publish step of metadata_snapshot_and_fill: safe_upload around
\* gh_release_upload_or_replace_asset, then the caller's buffer.clear().  The
\* sleeps between the attempts (1 s, growing by 1.8) change no state.

MaxBufRows == 3

\* attempts: int = 6
DefaultAttempts == 6

\* one attempt more than asked for: NOT what the code does
InRangeOneMore(i, attempts) == i <= attempts + 1

\* for i in range(1, attempts + 1)
InRange(i, attempts) == i <= attempts

InitUpload ==
  /\ HalvesIdle
  /\ HalvesIdle
  /\ MergeIdle
  /\ StoreIdle
  /\ WritersIdle
  /\ FillIdle
  /\ PaceIdle
  /\ SyncIdle
  /\ IngestIdle
  /\ PickIdle
  /\ NormIdle
  /\ WalkIdle
  /\ AmountIdle
  /\ DedupIdle
  /\ SnapIdle
  /\ GetIdle
  /\ ScaleIdle
  /\ ColsIdle
  /\ ApiIdle
  /\ uattempts \in 0..DefaultAttempts
  /\ ucalls = 0
  /\ upc = "loop"
  /\ ustore \in {"old", "none"}
  /\ ubuf \in 1..MaxBufRows
  /\ uok = FALSE

\* the upload call returns: return
UploadReturns ==
  /\ upc = "loop"
  /\ InRange(ucalls + 1, uattempts)
  /\ ucalls' = ucalls + 1
  /\ uok' = TRUE
  /\ ustore' = "new"
  /\ upc' = "returned"
  /\ UNCHANGED <<corevars, yvars, pvars, syvars, ivars, kvars, nvars, wkvars, avars, dvars, svars, gvars,
                 yvars, cvars, hvars, lvars, uattempts, ubuf>>

\* the upload call raises, before or after its DELETE was done: on the last
\* attempt a warning and return, else sleep and go on
UploadRaises ==
  /\ upc = "loop"
  /\ InRange(ucalls + 1, uattempts)
  /\ ucalls' = ucalls + 1
  /\ uok' = FALSE
  /\ ustore' \in {ustore, "none"}
  /\ upc' = IF ucalls + 1 = uattempts THEN "returned" ELSE "loop"
  /\ UNCHANGED <<corevars, yvars, pvars, syvars, ivars, kvars, nvars, wkvars, avars, dvars, svars, gvars,
                 yvars, cvars, hvars, lvars, uattempts, ubuf>>

\* the range is empty or used up: the function ends
LoopEnds ==
  /\ upc = "loop"
  /\ ~InRange(ucalls + 1, uattempts)
  /\ upc' = "returned"
  /\ UNCHANGED <<corevars, yvars, pvars, syvars, ivars, kvars, nvars, wkvars, avars, dvars, svars, gvars,
                 yvars, cvars, hvars, lvars, uattempts, ucalls, ustore, ubuf, uok>>

\* main after safe_upload: print, buffer.clear()
BufferClear ==
  /\ upc = "returned"
  /\ ubuf' = 0
  /\ upc' = "cleared"
  /\ UNCHANGED <<corevars, yvars, pvars, syvars, ivars, kvars, nvars, wkvars, avars, dvars, svars, gvars,
                 yvars, cvars, hvars, lvars, uattempts, ucalls, ustore, uok>>

NextUpload == UploadReturns \/ UploadRaises \/ LoopEnds \/ BufferClear

SpecUpload == InitUpload /\ [][NextUpload]_vars

\* C38: safe_upload calls the upload at most `attempts` times, makes no call
\* after one that returned, and always returns: after the last failed attempt
\* the caller goes on and clears its buffer, published or not.
C38_SafeUploadNeverRaises ==
  /\ ucalls <= uattempts
  /\ uok => upc # "loop"
  /\ (ucalls = uattempts /\ ~uok) => ~ENABLED (UploadReturns \/ UploadRaises)
  /\ upc = "cleared" => ubuf = 0
  /\ (upc = "loop" /\ ucalls = uattempts) => ENABLED LoopEnds

\* C38 witness: six attempts raised, the asset is deleted and not replaced,
\* and the caller has cleared its buffer
C38_Witness ==
  /\ uattempts = DefaultAttempts /\ ucalls = DefaultAttempts
  /\ ~uok /\ ustore = "none"
  /\ upc = "cleared" /\ ubuf = 0

\* --------------------------- SpecHalves ---------------------------------
\* list_recent_financial_halves() on one day.

FirstYear == 2020
NumYears == 5

FIN_HALVES_LOOKBACK == 4

\* the days the function can be called on; only year and month are read
Todays == [y : FirstYear..(FirstYear + NumYears), m : 1..12]

\* h = "H1" if today.month <= 6 else "H2"
HalfOf(mm) == IF mm <= 6 THEN "H1" ELSE "H2"

\* the year never changed: NOT what the code does
IdxToYhSameYear(y, h, idx) ==
  <<y, IF ((y * 2) + (IF h = "H1" THEN 0 ELSE 1) - idx) % 2 = 0 THEN "H1" ELSE "H2">>

\* idx_to_yh(idx), with the y and h of the enclosing call
IdxToYh(y, h, idx) ==
  LET base_half_num == (y * 2) + (IF h = "H1" THEN 0 ELSE 1)
      target_half_num == base_half_num - idx
  IN  <<target_half_num \div 2, IF target_half_num % 2 = 0 THEN "H1" ELSE "H2">>

\* de-duplicate while maintaining order
DedupOrdered(hs) ==
  PickIdx(hs, {i \in 1..Len(hs) : \A j \in 1..(i - 1) : hs[j] # hs[i]}, 1)

InitHalves ==
  /\ MergeIdle
  /\ StoreIdle
  /\ WritersIdle
  /\ FillIdle
  /\ PaceIdle
  /\ SyncIdle
  /\ IngestIdle
  /\ PickIdle
  /\ NormIdle
  /\ WalkIdle
  /\ AmountIdle
  /\ DedupIdle
  /\ SnapIdle
  /\ GetIdle
  /\ ScaleIdle
  /\ ColsIdle
  /\ ApiIdle
  /\ UploadIdle
  /\ today \in Todays
  /\ halves = <<>>
  /\ ordered = Uncalled

\* for i in range(FIN_HALVES_LOOKBACK): halves.append(idx_to_yh(i))
AppendHalf ==
  /\ Len(halves) < FIN_HALVES_LOOKBACK
  /\ halves' = Append(halves, IdxToYh(today.y, HalfOf(today.m), Len(halves)))
  /\ UNCHANGED <<corevars, pvars, syvars, ivars, kvars, nvars, wkvars, avars, dvars, svars, gvars,
                 uvars, cvars, hvars, lvars, today, ordered>>

\* the de-duplication loop and the return
ReturnOrdered ==
  /\ Len(halves) = FIN_HALVES_LOOKBACK
  /\ ~ordered.called
  /\ ordered' = Returned(DedupOrdered(halves))
  /\ UNCHANGED <<corevars, pvars, syvars, ivars, kvars, nvars, wkvars, avars, dvars, svars, gvars,
                 uvars, cvars, hvars, lvars, today, halves>>

NextHalves == AppendHalf \/ ReturnOrdered

SpecHalves == InitHalves /\ [][NextHalves]_vars

\* the half before a half: H1 before H2 of the same year, H2 of the year
\* before before H1
HalfBefore(yh) == IF yh[2] = "H2" THEN <<yh[1], "H1">> ELSE <<yh[1] - 1, "H2">>

\* C39: the list returned holds exactly 4 distinct (year, half) pairs: the
\* half of today first, then the three halves before it, each the half just
\* before the one ahead of it in the list.
C39_FourRecentHalves ==
  ordered.called =>
    /\ Len(ordered.v) = 4
    /\ \A i, j \in 1..Len(ordered.v) : ordered.v[i] = ordered.v[j] => i = j
    /\ ordered.v[1] = <<today.y, IF today.m \in 1..6 THEN "H1" ELSE "H2">>
    /\ \A i \in 2..Len(ordered.v) : ordered.v[i] = HalfBefore(ordered.v[i - 1])

\* C39 witness: called in March 2022, the list goes back to the second half
\* of 2020
C39_Witness ==
  /\ today = [y |-> 2022, m |-> 3]
  /\ ordered.called
  /\ ordered.v = << <<2022, "H1">>, <<2021, "H2">>, <<2021, "H1">>, <<2020, "H2">> >>

====
